---- MODULE Spec2Model ----
(***************************************************************************)
(* Model of the wuzapi <-> Chatwoot bridge: the outbound relay             *)
(* (ProcessEvent / EventHandler -> SendToChatwoot /                        *)
(* SendAttachmentToChatwoot -> getOrCreateContact -> sendConversation),    *)
(* the webhook handler HandleChatwootWebhook in its revisions, the first   *)
(* revision of the relay, and the configuration store (cwCfg, loadConfig,  *)
(* saveConfigToDisk).                                                      *)
(*                                                                         *)
(* Go strings that the code takes apart (phones, JIDs, delimiters) are     *)
(* sequences of one-character strings; strings that are only compared or   *)
(* passed on (URL, token, message text) are atoms.                         *)
(***************************************************************************)
EXTENDS Integers, Sequences, FiniteSets, TLC

VARIABLES
    cwCfg,        \* chatwoot.go:47  the shared configuration
    configFile,   \* chatwoot.go:51  the content of chatwoot.json
    contacts,     \* the case system's contact table, in creation order
    task,         \* one record per inbound chat event / relay goroutine
    clients,      \* clients.go:22   clientManager.clients: user id -> connected?
    cb,           \* one record per webhook callback
    admin         \* one record per set-config request

vars == <<cwCfg, configFile, contacts, task, clients, cb, admin>>

\* ------------------------------------------------------------------ bounds

MaxTasks == 2
MaxCallbacks == 1
MaxSets == 2
MaxDigits == 9

Tasks == 1..MaxTasks
Callbacks == 1..MaxCallbacks
Admins == 1..MaxSets

\* ------------------------------------------------------------------ strings

Digits == <<"0", "1", "2", "3", "4", "5", "6", "7", "8", "9">>

IsDigit(c) == \E i \in 1..10 : Digits[i] = c

DigitVal(c) == (CHOOSE i \in 1..10 : Digits[i] = c) - 1

\* strings.Replace(s, old, "", -1) for a one-character old
RemoveChar(s, c) == SelectSeq(s, LAMBDA x : x # c)

Contains(s, c) == \E i \in 1..Len(s) : s[i] = c

\* strings.Contains(s, sub)
ContainsSub(s, sub) ==
    \E i \in 0..(Len(s) - Len(sub)) : SubSeq(s, i + 1, i + Len(sub)) = sub

IndexOf(s, c) == IF Contains(s, c) THEN CHOOSE i \in 1..Len(s) : s[i] = c /\ \A j \in 1..(i - 1) : s[j] # c ELSE 0

\* strings.Split(s, "@")[0]
BeforeAt(s) == IF Contains(s, "@") THEN SubSeq(s, 1, IndexOf(s, "@") - 1) ELSE s

AfterAt(s) == IF Contains(s, "@") THEN SubSeq(s, IndexOf(s, "@") + 1, Len(s)) ELSE <<>>

RECURSIVE AtoiAcc(_, _)
AtoiAcc(s, acc) ==
    IF s = <<>> THEN acc
    ELSE IF ~IsDigit(Head(s)) THEN 0
    ELSE AtoiAcc(Tail(s), acc * 10 + DigitVal(Head(s)))

\* strconv.Atoi with the error dropped: 0 for anything that is not a number
Atoi(s) == IF s = <<>> THEN 0 ELSE AtoiAcc(s, 0)

RECURSIVE EscapePlus(_)
\* strings.Replace(phone, "+", "%2B", -1)
EscapePlus(s) ==
    IF s = <<>> THEN <<>>
    ELSE IF Head(s) = "+" THEN <<"%", "2", "B">> \o EscapePlus(Tail(s))
    ELSE <<Head(s)>> \o EscapePlus(Tail(s))

RECURSIVE QueryUnescape(_)
\* what the case system reads back from the q= parameter
QueryUnescape(s) ==
    IF s = <<>> THEN <<>>
    ELSE IF Len(s) >= 3 /\ SubSeq(s, 1, 3) = <<"%", "2", "B">>
         THEN <<"+">> \o QueryUnescape(SubSeq(s, 4, Len(s)))
    ELSE IF Head(s) = "+" THEN <<" ">> \o QueryUnescape(Tail(s))
    ELSE <<Head(s)>> \o QueryUnescape(Tail(s))

\* ------------------------------------------------------------------ identities

DefaultUserServer == <<"s", ".", "w", "h", "a", "t", "s", "a", "p", "p", ".", "n", "e", "t">>
GroupServer == <<"g", ".", "u", "s">>

UserA == <<"5", "5", "1", "1", "9", "9", "9", "9">>
UserB == <<"5", "5", "2", "1", "8", "8", "8", "8", "8">>

JidString(user, server) == user \o <<"@">> \o server


\* ------------------------------------------------------------------ configuration

\* strings.TrimSpace
RECURSIVE TrimLeft(_)
TrimLeft(s) == IF s # <<>> /\ Head(s) = " " THEN TrimLeft(Tail(s)) ELSE s
RECURSIVE TrimRight(_)
TrimRight(s) == IF s # <<>> /\ s[Len(s)] = " " THEN TrimRight(SubSeq(s, 1, Len(s) - 1)) ELSE s
TrimSpace(s) == TrimRight(TrimLeft(s))

UrlCw == <<"c", "w">>
TokenCw == <<"k", "1">>
Newline == <<"LF">>          \* the one-character string "\n"
EscapedNewline == <<"\\", "n">>  \* the two-character string `\n`

\* ChatwootConfig, chatwoot.go:20-44, restricted to the fields the relay and the
\* webhook read
CfgOn ==
    [Enabled |-> TRUE, URL |-> UrlCw, AccountID |-> <<"1">>, Token |-> TokenCw,
     InboxID |-> <<"7">>, SignMessages |-> FALSE, SignatureDelimiter |-> Newline,
     IgnoreJIDs |-> <<GroupServer>>]
CfgOff == [CfgOn EXCEPT !.Enabled = FALSE, !.SignMessages = TRUE, !.SignatureDelimiter = EscapedNewline]
CfgNoURL == [CfgOn EXCEPT !.URL = <<>>, !.IgnoreJIDs = <<>>]
CfgNoToken == [CfgOn EXCEPT !.Token = <<>>, !.SignMessages = TRUE, !.SignatureDelimiter = <<>>]

\* the configurations an administrator submits, or a chatwoot.json holds
Configs == {CfgOn, CfgOff, CfgNoURL, CfgNoToken}

\* the zero value of ChatwootConfig with loadConfig's defaults, chatwoot.go:62-65
DefaultCfg ==
    [Enabled |-> FALSE, URL |-> <<>>, AccountID |-> <<>>, Token |-> <<>>,
     InboxID |-> <<>>, SignMessages |-> FALSE, SignatureDelimiter |-> Newline,
     IgnoreJIDs |-> <<>>]

\* the process environment: CHATWOOT_URL, CHATWOOT_TOKEN, CHATWOOT_ACCOUNT_ID, CHATWOOT_INBOX_ID
Envs ==
    {[URL |-> <<>>, Token |-> <<>>, AccountID |-> <<>>, InboxID |-> <<>>],
     [URL |-> <<" ">> \o UrlCw, Token |-> TokenCw, AccountID |-> <<"1">>, InboxID |-> <<"7">>],
     [URL |-> UrlCw, Token |-> <<" ">>, AccountID |-> <<"1">>, InboxID |-> <<"7">>]}

\* the json tags of ChatwootConfig, chatwoot.go:21-43
JsonTag ==
    [Enabled |-> "enabled", URL |-> "url", AccountID |-> "account_id", Token |-> "token",
     InboxID |-> "inbox_id", SignMessages |-> "sign_messages",
     SignatureDelimiter |-> "signature_delimiter", IgnoreJIDs |-> "ignore_jids"]
Fields == DOMAIN JsonTag
FieldOf(tag) == CHOOSE f \in Fields : JsonTag[f] = tag

\* the zero value of a field's type
IsZero(f, v) == IF f \in {"Enabled", "SignMessages"} THEN v = FALSE ELSE v = <<>>

\* Encode as if the tags had omitempty: no member for a field at its zero value
Encode_OmitEmpty(cfg) ==
    [tag \in {JsonTag[f] : f \in {g \in Fields : ~IsZero(g, cfg[g])}} |-> cfg[FieldOf(tag)]]

\* json.NewEncoder(file).Encode(cfg), chatwoot.go:88: a JSON object with one
\* member per field, under the field's tag
Encode(cfg) == [tag \in {JsonTag[f] : f \in Fields} |-> cfg[FieldOf(tag)]]

\* json.NewDecoder(file).Decode(&cwCfg), chatwoot.go:70: a member of the object
\* replaces the field with its tag, a field without member keeps its value; an
\* empty file decodes nothing and the error is dropped
Decode(into, doc) ==
    [f \in Fields |-> IF JsonTag[f] \in DOMAIN doc THEN doc[JsonTag[f]] ELSE into[f]]

\* chatwoot.json: absent, created and still empty, or the JSON of a configuration
NoFile == [exists |-> FALSE, json |-> <<>>]
EmptyFile == [exists |-> TRUE, json |-> <<>>]
FileOf(c) == [exists |-> TRUE, json |-> Encode(c)]
Files == {NoFile} \cup {FileOf(c) : c \in Configs}

\* chatwoot.go:57-80
loadConfig(file, env) ==
    IF file.exists THEN Decode(DefaultCfg, file.json)
    ELSE [DefaultCfg EXCEPT
            !.URL = TrimSpace(env.URL),
            !.Token = TrimSpace(env.Token),
            !.AccountID = TrimSpace(env.AccountID),
            !.InboxID = TrimSpace(env.InboxID),
            !.Enabled = (TrimSpace(env.URL) # <<>>)]

\* a set-config request: its position, the configuration it carries, whether
\* chatwoot.json could be created and written, the status of its response, and
\* whether another request ran during it
IdleAdmin ==
    [pc |-> "idle", rev |-> "none", op |-> "set", cfg |-> DefaultCfg, created |-> FALSE,
     written |-> FALSE, status |-> 0, overlap |-> FALSE, calls |-> <<>>]

\* ------------------------------------------------------------------ case system

\* a response of the case system to one HTTP call: err is a transport error
\* (no response), otherwise status and the decoded ids of the body
Resp(err, status, ids) == [err |-> err, status |-> status, ids |-> ids]

MatchingIds(q) ==
    LET hits == SelectSeq(contacts, LAMBDA c : c.phone = QueryUnescape(q))
    IN  [i \in 1..Len(hits) |-> hits[i].id]

\* GET /contacts/search?q=...
SearchResponses(q) ==
    {Resp(TRUE, 0, <<>>), Resp(FALSE, 500, <<>>), Resp(FALSE, 200, MatchingIds(q))}

NextContactId == 10 + Len(contacts)

\* POST /contacts: the answers, and whether the contact now exists
CreateResponses ==
    {[resp |-> Resp(TRUE, 0, <<>>), stored |-> FALSE],
     [resp |-> Resp(FALSE, 200, <<NextContactId>>), stored |-> TRUE],
     [resp |-> Resp(FALSE, 200, <<>>), stored |-> FALSE],
     [resp |-> Resp(FALSE, 201, <<NextContactId>>), stored |-> TRUE],
     [resp |-> Resp(FALSE, 422, <<>>), stored |-> FALSE]}

\* POST /conversations
PostResponses == {Resp(TRUE, 0, <<>>), Resp(FALSE, 200, <<>>)}


\* ------------------------------------------------------------------ inbound chat events

TextOi == <<"O", "i">>
Caption == <<"c", "a", "p">>
ImageBytes == <<"J", "P", "G">>
NameCarlos == <<"C", "a", "r", "l", "o", "s">>

\* events.Message, the fields the handlers read.  A *string is a sequence of at
\* most one string (<<>> is nil); Media is which of GetImageMessage(),
\* GetAudioMessage(), GetVideoMessage(), GetDocumentMessage() is not nil, or
\* "none"; Download is whether the download succeeds, Bytes what it returns;
\* Caption, Mime and FileName are the getters of the media message.  Extended
\* is ExtendedTextMessage, a pointer to a message whose Text is a *string:
\* <<>> is nil, <<<<>>>> a message without Text, <<<<s>>>> one with the text s.
MsgText ==
    [Conversation |-> <<TextOi>>, Extended |-> <<>>, Media |-> "none", Download |-> FALSE,
     Bytes |-> <<>>, Caption |-> <<>>, Mime |-> <<>>, FileName |-> <<>>]
MsgNone == [MsgText EXCEPT !.Conversation = <<>>]
MsgImage ==
    [MsgNone EXCEPT !.Media = "image", !.Download = TRUE, !.Bytes = ImageBytes,
                    !.Caption = Caption, !.Mime = <<"i", "m", "a", "g", "e", "/", "j", "p", "e", "g">>]

SenderA == JidString(UserA, DefaultUserServer)
SenderPlusA == JidString(<<"+">> \o UserA, DefaultUserServer)
SenderB == JidString(UserB, DefaultUserServer)
GroupChat == JidString(<<"1", "2", "0", "3">>, GroupServer)

Event(chat, sender, push, old, m) ==
    [Chat |-> chat, Sender |-> sender, PushName |-> push, old |-> old, msg |-> m]

\* the inbound events: v.Info.Chat.String(), v.Info.Sender.String(),
\* v.Info.PushName, whether v.Info.Timestamp is more than two minutes old, and
\* the message
Events ==
    {Event(SenderA, SenderA, NameCarlos, FALSE, MsgText),
     Event(SenderPlusA, SenderPlusA, <<>>, FALSE, MsgText),
     Event(SenderB, SenderB, NameCarlos, FALSE, MsgImage),
     Event(SenderA, SenderA, NameCarlos, FALSE, MsgNone),
     Event(GroupChat, SenderB, NameCarlos, FALSE, MsgText),
     Event(SenderA, SenderA, NameCarlos, TRUE, MsgText)}

NoArgs == [pushName |-> <<>>, senderUser |-> <<>>, text |-> <<>>, fileName |-> <<>>, fileData |-> <<>>]

IdleTask ==
    [pc |-> "idle", rev |-> "none", Chat |-> <<>>, Sender |-> <<>>, PushName |-> <<>>,
     old |-> FALSE, webhook |-> FALSE, msg |-> MsgNone, args |-> NoArgs, cfg |-> DefaultCfg,
     phone |-> <<>>, contactID |-> 0, calls |-> <<>>, after |-> {}]

\* the HTTP calls of task t, of one kind
CallsOf(t, kind) == SelectSeq(task[t].calls, LAMBDA c : c.kind = kind)
Kinds(t) == [i \in 1..Len(task[t].calls) |-> task[t].calls[i].kind]

\* the tasks whose contact resolution has returned
Resolved == {u \in Tasks : task[u].pc \in {"post", "done"} /\ CallsOf(u, "search") # <<>>}

\* shouldIgnoreJID matching whole identities only
shouldIgnoreJID_Exact(jid) ==
    \E i \in 1..Len(cwCfg.IgnoreJIDs) : jid = cwCfg.IgnoreJIDs[i]

\* clients.go:65-75
shouldIgnoreJID(jid) ==
    \E i \in 1..Len(cwCfg.IgnoreJIDs) : ContainsSub(jid, cwCfg.IgnoreJIDs[i])

\* clients.go:225-226
SenderName(pushName, sender) == IF pushName = <<>> THEN BeforeAt(sender) ELSE pushName

\* ReceiveOf running the relay inside the handler: the next event is taken
\* when the relay of the one before has ended
ReceiveOf_Inline(t, rev, e) ==
    /\ task[t].pc = "idle"
    /\ \A u \in Tasks : u < t => task[u].pc = "done"
    /\ task' = [task EXCEPT ![t] =
                  [IdleTask EXCEPT !.pc = IF e.old THEN "done" ELSE "go",
                                   !.rev = rev, !.Chat = e.Chat, !.Sender = e.Sender,
                                   !.PushName = e.PushName, !.old = e.old,
                                   !.webhook = ~e.old, !.msg = e.msg]]
    /\ UNCHANGED <<cwCfg, configFile, contacts, clients, cb, admin>>

\* ReceiveOf without the test of the timestamp
ReceiveOf_AnyAge(t, rev, e) ==
    /\ task[t].pc = "idle"
    /\ \A u \in Tasks : u < t => task[u].pc # "idle"
    /\ task' = [task EXCEPT ![t] =
                  [IdleTask EXCEPT !.pc = "go",
                                   !.rev = rev, !.Chat = e.Chat, !.Sender = e.Sender,
                                   !.PushName = e.PushName, !.old = e.old,
                                   !.webhook = TRUE, !.msg = e.msg]]
    /\ UNCHANGED <<cwCfg, configFile, contacts, clients, cb, admin>>

\* An event arrives: clients.go:217-222 and 293 (ProcessEvent) or part_008:79-88
\* and 182 (EventHandler).  Events older than two minutes are dropped;
\* otherwise the relay goroutine and the goroutine of HandleWebhook (webhook)
\* are started and the handler returns.
ReceiveOf(t, rev, e) ==
    /\ task[t].pc = "idle"
    /\ \A u \in Tasks : u < t => task[u].pc # "idle"
    /\ task' = [task EXCEPT ![t] =
                  [IdleTask EXCEPT !.pc = IF e.old THEN "done" ELSE "go",
                                   !.rev = rev, !.Chat = e.Chat, !.Sender = e.Sender,
                                   !.PushName = e.PushName, !.old = e.old,
                                   !.webhook = ~e.old, !.msg = e.msg]]
    /\ UNCHANGED <<cwCfg, configFile, contacts, clients, cb, admin>>

Receive(t, rev) == \E e \in Events : ReceiveOf(t, rev, e)

ProcessEvent(t) == Receive(t, "clients.go")

EventHandler(t) == Receive(t, "part_008")

\* part_008:108-159: the media branch of EventHandler, fileData.  In
\* clients.go:236-280 the download is commented out, so fileData stays empty.
MediaData(rev, m) ==
    IF rev = "part_008" /\ m.Media # "none" /\ m.Download THEN m.Bytes ELSE <<>>

\* part_008:120, 142, 150: the caption of an image, a video or a document; an
\* audio has none
MediaCaption(m) == IF m.Media \in {"image", "video", "document"} THEN m.Caption ELSE <<>>

MimePdf == <<"a", "p", "p", "l", "i", "c", "a", "t", "i", "o", "n", "/", "p", "d", "f">>

\* mime.ExtensionsByType, for the types of the modelled messages
ExtensionsByType(mimeType) == IF mimeType = MimePdf THEN <<<<".", "p", "d", "f">>>> ELSE <<>>

\* part_008:122, 129-133, 143, 152-156: the file name given to the attachment
MediaFileName(m) ==
    IF m.Media = "image" THEN <<"i", "m", "a", "g", "e", ".", "j", "p", "g">>
    ELSE IF m.Media = "audio"
      THEN <<"a", "u", "d", "i", "o">> \o
           (IF ContainsSub(m.Mime, <<"m", "p", "e", "g">>) THEN <<".", "m", "p", "3">>
            ELSE IF ContainsSub(m.Mime, <<"m", "p", "4">>) THEN <<".", "m", "p", "4">>
            ELSE <<".", "o", "g", "g">>)
    ELSE IF m.Media = "video" THEN <<"v", "i", "d", "e", "o", ".", "m", "p", "4">>
    ELSE IF m.FileName # <<>> THEN m.FileName
    ELSE IF Len(ExtensionsByType(m.Mime)) > 0
      THEN <<"f", "i", "l", "e">> \o ExtensionsByType(m.Mime)[1]
    ELSE <<"f", "i", "l", "e", ".", "b", "i", "n">>

\* clients.go:286-287, part_008:169-170: *v.Message.ExtendedTextMessage.Text is
\* read without a test of Text; on a nil Text the goroutine panics
DerefsNil(m) == m.Conversation = <<>> /\ m.Extended # <<>> /\ m.Extended[1] = <<>>

\* clients.go:283-288, part_008:166-171
TextOf(m) ==
    IF m.Conversation # <<>> THEN m.Conversation[1]
    ELSE IF m.Extended # <<>> /\ m.Extended[1] # <<>> THEN m.Extended[1][1]
    ELSE <<>>

\* A panic that no goroutine recovers ends the process: every task, callback
\* and administrative request ends with it
Crashed(procs) == [p \in DOMAIN procs |-> [procs[p] EXCEPT !.pc = "panic"]]

\* The relay goroutine up to its call of SendToChatwoot /
\* SendAttachmentToChatwoot: clients.go:222-289, part_008:88-178
RelayGoroutine(t) ==
    /\ task[t].pc = "go"
    /\ LET r == task[t]
           name == SenderName(r.PushName, r.Sender)
           data == MediaData(r.rev, r.msg)
           text == TextOf(r.msg)
           media == r.msg.Media # "none" /\ Len(data) > 0
       IN  IF ~shouldIgnoreJID(r.Chat) /\ ~media /\ DerefsNil(r.msg)
           THEN /\ task' = Crashed(task)
                /\ cb' = Crashed(cb)
                /\ admin' = Crashed(admin)
           ELSE /\ task' = [task EXCEPT ![t] =
                     IF shouldIgnoreJID(r.Chat) THEN [r EXCEPT !.pc = "done"]
                     ELSE IF media
                       THEN [r EXCEPT !.pc = "attach",
                                      !.args = [pushName |-> name, senderUser |-> r.Sender,
                                                text |-> MediaCaption(r.msg),
                                                fileName |-> MediaFileName(r.msg),
                                                fileData |-> data]]
                     ELSE IF text # <<>>
                       THEN [r EXCEPT !.pc = "text",
                                      !.args = [NoArgs EXCEPT !.pushName = name,
                                                              !.senderUser = r.Sender,
                                                              !.text = text]]
                     ELSE [r EXCEPT !.pc = "done"]]
                /\ UNCHANGED <<cb, admin>>
    /\ UNCHANGED <<cwCfg, configFile, contacts, clients>>

\* ------------------------------------------------------------------ outbound relay

\* NotConfigured without the tests of the URL and the token
NotConfigured_EnabledOnly(cfg) == ~cfg.Enabled

\* chatwoot.go:293, part_000:586
NotConfigured(cfg) == ~cfg.Enabled \/ cfg.URL = <<>> \/ cfg.Token = <<>>

\* ToCasePhone without the split at "@"
ToCasePhone_KeepDomain(senderUser) == <<"+">> \o RemoveChar(senderUser, "+")

\* chatwoot.go:298-300
ToCasePhone(senderUser) == <<"+">> \o BeforeAt(RemoveChar(senderUser, "+"))

\* chatwoot.go:288-302 (SendToChatwoot) and part_000:581-595
\* (SendAttachmentToChatwoot): snapshot the configuration under the read lock,
\* return when the integration is not configured, normalise the phone
RelayEntry(t, pc) ==
    /\ task[t].pc = pc
    /\ task' = [task EXCEPT ![t] =
                  IF NotConfigured(cwCfg) THEN [@ EXCEPT !.pc = "done", !.cfg = cwCfg]
                  ELSE [@ EXCEPT !.pc = "search", !.cfg = cwCfg,
                                 !.phone = ToCasePhone(task[t].args.senderUser),
                                 !.after = Resolved]]
    /\ UNCHANGED <<cwCfg, configFile, contacts, clients, cb, admin>>

SendToChatwoot(t) == RelayEntry(t, "text")

SendAttachmentToChatwoot(t) == RelayEntry(t, "attach")

\* SearchMatched asking for more than one match
SearchMatched_TwoOrMore(resp) == ~resp.err /\ resp.status = 200 /\ Len(resp.ids) > 1

\* chatwoot.go:315-320: the search counts only when it answered 200
SearchMatched(resp) == ~resp.err /\ resp.status = 200 /\ Len(resp.ids) > 0

\* FirstMatch taking the last match
FirstMatch_Last(resp) == resp.ids[Len(resp.ids)]

\* chatwoot.go:320
FirstMatch(resp) == resp.ids[1]

\* AfterSearchMiss giving up when the search itself failed
AfterSearchMiss_FailIsError(resp) == IF resp.err \/ resp.status # 200 THEN "done" ELSE "create"

\* chatwoot.go:315 and 322: a search that failed or matched nothing falls
\* through to the create
AfterSearchMiss(resp) == "create"

\* AfterResolve creating again when the id is zero
AfterResolve_CreateAgain(id) == IF id = 0 THEN "create" ELSE "post"

\* AfterResolve without the test of the id
AfterResolve_NoTest(id) == "post"

\* chatwoot.go:303-306: the caller gives up on a zero id, and posts otherwise
AfterResolve(id) == IF id = 0 THEN "done" ELSE "post"

\* getOrCreateContact, the search: chatwoot.go:310-321
getOrCreateContact_search(t) ==
    /\ task[t].pc = "search"
    /\ LET r == task[t]
           q == EscapePlus(r.phone)
       IN  \E resp \in SearchResponses(q) :
             LET call == [kind |-> "search", q |-> q, token |-> r.cfg.Token, resp |-> resp]
             IN  task' = [task EXCEPT ![t] =
                   IF SearchMatched(resp)
                   THEN [r EXCEPT !.calls = Append(@, call), !.contactID = FirstMatch(resp),
                                  !.pc = AfterResolve(FirstMatch(resp))]
                   ELSE [r EXCEPT !.calls = Append(@, call), !.pc = AfterSearchMiss(resp)]]
    /\ UNCHANGED <<cwCfg, configFile, contacts, clients, cb, admin>>

\* CreatedId taking the id of every answer in the 2xx range
CreatedId_Any2xx(resp) ==
    IF resp.err THEN 0
    ELSE IF resp.status \in 200..299 THEN (IF Len(resp.ids) > 0 THEN resp.ids[1] ELSE 0)
    ELSE 0

\* chatwoot.go:331-338: the id of the created contact, 0 on any failure
CreatedId(resp) ==
    IF resp.err THEN 0
    ELSE IF resp.status = 200 THEN (IF Len(resp.ids) > 0 THEN resp.ids[1] ELSE 0)
    ELSE 0

\* getOrCreateContact, the create: chatwoot.go:322-338, and the caller's test
\* of the id, chatwoot.go:303-305
getOrCreateContact_create(t) ==
    /\ task[t].pc = "create"
    /\ LET r == task[t]
       IN  \E a \in CreateResponses :
             LET call == [kind |-> "create", inbox_id |-> Atoi(r.cfg.InboxID),
                          name |-> r.args.pushName, phone_number |-> r.phone,
                          source_id |-> r.phone, token |-> r.cfg.Token, resp |-> a.resp]
                 id == CreatedId(a.resp)
             IN  /\ task' = [task EXCEPT ![t] =
                       [r EXCEPT !.calls = Append(@, call), !.contactID = id,
                                 !.pc = AfterResolve(id)]]
                 /\ contacts' = IF a.stored
                                THEN Append(contacts, [id |-> NextContactId, phone |-> r.phone])
                                ELSE contacts
    /\ UNCHANGED <<cwCfg, configFile, clients, cb, admin>>

RECURSIVE ItoaAcc(_)
ItoaAcc(n) == IF n = 0 THEN <<>> ELSE Append(ItoaAcc(n \div 10), Digits[(n % 10) + 1])
\* strconv.Itoa, for the contact ids, which are not negative
Itoa(n) == IF n = 0 THEN <<"0">> ELSE ItoaAcc(n)

\* PostCall leaving the file out: the post of a text whatever the task has
PostCall_NoFile(r, cfg, resp) ==
    [kind |-> "post", form |-> "json", inbox_id |-> Atoi(cfg.InboxID),
     contact_id |-> r.contactID, content |-> r.args.text, message_type |-> "incoming",
     file |-> <<>>, fileName |-> <<>>, token |-> cfg.Token, resp |-> resp]

\* the request of chatwoot.go:341-350 for a text, a JSON object with the inbox
\* and the contact as numbers, and the request of part_000:600-616 for an
\* attachment, a multipart form with the file under attachments[] and the
\* inbox and the contact as strings
PostCall(r, cfg, resp) ==
    IF r.args.fileData = <<>>
    THEN [kind |-> "post", form |-> "json", inbox_id |-> Atoi(cfg.InboxID),
          contact_id |-> r.contactID, content |-> r.args.text, message_type |-> "incoming",
          file |-> <<>>, fileName |-> <<>>, token |-> cfg.Token, resp |-> resp]
    ELSE [kind |-> "post", form |-> "multipart", inbox_id |-> cfg.InboxID,
          contact_id |-> Itoa(r.contactID), content |-> r.args.text,
          message_type |-> "incoming", file |-> r.args.fileData,
          fileName |-> r.args.fileName, token |-> cfg.Token, resp |-> resp]

\* sendConversation reading the shared configuration when it posts
sendConversation_Shared(t) ==
    /\ task[t].pc = "post"
    /\ LET r == task[t]
       IN  \E resp \in PostResponses :
             LET call == PostCall(r, cwCfg, resp)
             IN  task' = [task EXCEPT ![t] = [r EXCEPT !.calls = Append(@, call), !.pc = "done"]]
    /\ UNCHANGED <<cwCfg, configFile, contacts, clients, cb, admin>>

\* sendConversation posting once more when the first post got no response
sendConversation_Retry(t) ==
    /\ task[t].pc = "post"
    /\ LET r == task[t]
       IN  \E resp \in PostResponses :
             LET call == PostCall(r, r.cfg, resp)
             IN  task' = [task EXCEPT ![t] =
                   [r EXCEPT !.calls = Append(@, call),
                             !.pc = IF resp.err /\ CallsOf(t, "post") = <<>> THEN "post" ELSE "done"]]
    /\ UNCHANGED <<cwCfg, configFile, contacts, clients, cb, admin>>

\* chatwoot.go:341-354 (sendConversation) and part_000:600-621 (the multipart
\* post of SendAttachmentToChatwoot)
\* sendConversation waiting for the posts of the events received before
sendConversation_InOrder(t) ==
    /\ task[t].pc = "post"
    /\ \A u \in Tasks : u < t => task[u].pc = "done"
    /\ LET r == task[t]
       IN  \E resp \in PostResponses :
             LET call == PostCall(r, r.cfg, resp)
             IN  task' = [task EXCEPT ![t] = [r EXCEPT !.calls = Append(@, call), !.pc = "done"]]
    /\ UNCHANGED <<cwCfg, configFile, contacts, clients, cb, admin>>

sendConversation(t) ==
    /\ task[t].pc = "post"
    /\ LET r == task[t]
       IN  \E resp \in PostResponses :
             LET call == PostCall(r, r.cfg, resp)
             IN  task' = [task EXCEPT ![t] = [r EXCEPT !.calls = Append(@, call), !.pc = "done"]]
    /\ UNCHANGED <<cwCfg, configFile, contacts, clients, cb, admin>>

\* ------------------------------------------------------------------ the first revision of the relay

\* part_000:51-54: the configuration is read from the environment at each call
EnvCfg(env) ==
    [DefaultCfg EXCEPT !.Enabled = TRUE, !.URL = TrimSpace(env.URL), !.Token = TrimSpace(env.Token),
                       !.AccountID = TrimSpace(env.AccountID), !.InboxID = TrimSpace(env.InboxID)]

\* part_000:56
NotConfigured_p0(cfg) == cfg.URL = <<>> \/ cfg.Token = <<>>

\* the arguments of SendToChatwoot(pushName, senderUser, text), part_000:50
RelayArgs ==
    {[NoArgs EXCEPT !.pushName = n, !.senderUser = u, !.text = TextOi] :
        n \in {NameCarlos, <<>>}, u \in {UserA, UserB}}

\* part_000:62: the "+" is put before the argument as it came
ToCasePhone_p0(senderUser) == <<"+">> \o senderUser

\* part_000:50-65: SendToChatwoot of the first revision, up to the resolver
SendToChatwoot_p0(t) ==
    /\ task[t].pc = "idle"
    /\ \A u \in Tasks : u < t => task[u].pc # "idle"
    /\ \E env \in Envs, a \in RelayArgs :
         task' = [task EXCEPT ![t] =
           IF NotConfigured_p0(EnvCfg(env))
           THEN [IdleTask EXCEPT !.pc = "done", !.rev = "part_000", !.args = a, !.cfg = EnvCfg(env)]
           ELSE [IdleTask EXCEPT !.pc = "search", !.rev = "part_000", !.args = a,
                                 !.cfg = EnvCfg(env), !.phone = ToCasePhone_p0(a.senderUser),
                                 !.after = Resolved]]
    /\ UNCHANGED <<cwCfg, configFile, contacts, clients, cb, admin>>

\* getOrCreateContact of the first revision, the create: part_000:95-122, and
\* the caller's test of the id, part_000:66-69.  The body has no source_id.
getOrCreateContact_create_p0(t) ==
    /\ task[t].pc = "create"
    /\ task[t].rev = "part_000"
    /\ LET r == task[t]
       IN  \E a \in CreateResponses :
             LET call == [kind |-> "create", inbox_id |-> Atoi(r.cfg.InboxID),
                          name |-> r.args.pushName, phone_number |-> r.phone,
                          token |-> r.cfg.Token, resp |-> a.resp]
                 id == CreatedId(a.resp)
             IN  /\ task' = [task EXCEPT ![t] =
                       [r EXCEPT !.calls = Append(@, call), !.contactID = id,
                                 !.pc = AfterResolve(id)]]
                 /\ contacts' = IF a.stored
                                THEN Append(contacts, [id |-> NextContactId, phone |-> r.phone])
                                ELSE contacts
    /\ UNCHANGED <<cwCfg, configFile, clients, cb, admin>>

\* ------------------------------------------------------------------ session registry

Tok1 == <<"t", "1">>
Tok2 == <<"t", "2">>
TokX == <<"t", "x">>

\* userinfocache.Get(token) and the Values it holds: Tok1 is the session of
\* user "u1", Tok2 of user "u2"; any other token is unknown
userinfocacheGet(token) ==
    IF token = Tok1 THEN [found |-> TRUE, Id |-> "u1"]
    ELSE IF token = Tok2 THEN [found |-> TRUE, Id |-> "u2"]
    ELSE [found |-> FALSE, Id |-> ""]

\* clients.go:46-51: nil when no client is registered under the id
HasClient(id) == id \in DOMAIN clients

\* ClientReady without the test of the connection
ClientReady_Registered(id) == HasClient(id)

\* client != nil && client.IsConnected(), chatwoot.go:383
ClientReady(id) == HasClient(id) /\ clients[id]

\* clients.go:53-58: Connect is a no-op on a connected client, and may fail
Connect(id) ==
    /\ HasClient(id) /\ ~clients[id]
    /\ \E ok \in BOOLEAN : clients' = [clients EXCEPT ![id] = ok]
    /\ UNCHANGED <<cwCfg, configFile, contacts, task, cb, admin>>

\* clients.go:60-62
Disconnect(id) ==
    /\ HasClient(id) /\ clients[id]
    /\ clients' = [clients EXCEPT ![id] = FALSE]
    /\ UNCHANGED <<cwCfg, configFile, contacts, task, cb, admin>>

\* ------------------------------------------------------------------ webhook payloads

TextReply == <<"R", "e", "p", "l", "y">>
NameAna == <<"A", "n", "a">>
PhonePlusA == <<"+", "5", "5", "1", "1", " ", "9", "9", "9", "9">>
PhoneShort == <<"+", "1", "2", "3">>
UuidLike ==
    <<"a", "1", "b", "2", "c", "3", "d", "4", "-", "e", "5", "f", "6", "-",
      "4", "a", "7", "b", "-", "8", "c", "9", "d", "-",
      "0", "e", "1", "f", "2", "a", "3", "b", "4", "c", "5", "d">>
\* a value that is no identity: two "@"
TwoAts == <<"5", "5", "1", "1", "@", "9", "9", "@", "9">>

\* CwAttachment, part_000:354-360
AttImage == [FileType |-> "image", DataUrl |-> "u/img"]
AttAudio == [FileType |-> "audio", DataUrl |-> "u/ogg"]
AttFile == [FileType |-> "file", DataUrl |-> "u/pdf"]

\* CwWebhook, chatwoot.go:125-140 and part_000:362-378
Payloads ==
    [Event : {"message_created", "message_updated"},
     MessageType : {"outgoing", "incoming"},
     Content : {TextReply, <<>>},
     SenderName : {<<>>, NameAna},
     PhoneNumber : {<<>>, PhonePlusA, PhoneShort},
     SourceID : {<<>>, UserB, UuidLike, TwoAts},
     Attachments : {<<>>, <<AttImage>>, <<AttAudio, AttFile>>}]

EmptyPayload ==
    [Event |-> "", MessageType |-> "", Content |-> <<>>, SenderName |-> <<>>,
     PhoneNumber |-> <<>>, SourceID |-> <<>>, Attachments |-> <<>>]

Tokens == {<<>>, Tok1, Tok2, TokX}

NoJID == [User |-> <<>>, Server |-> <<>>]

IdleCb ==
    [pc |-> "idle", rev |-> "none", token |-> <<>>, jsonOk |-> FALSE,
     payload |-> EmptyPayload, status |-> 0, cfg |-> DefaultCfg, userID |-> "",
     jid |-> NoJID, next |-> 1, trace |-> <<>>]

\* ------------------------------------------------------------------ webhook handler

\* w.WriteHeader(code): the response of the callback, once
Respond(c, code) ==
    [c EXCEPT !.status = code, !.trace = Append(@, [kind |-> "respond", status |-> code])]

\* Accept that delivers only when the integration is configured
Accept_IfConfigured(c) ==
    [Respond(c, 200) EXCEPT !.pc = IF NotConfigured(c.cfg) THEN "done" ELSE "go"]

\* Accept with the goroutine started and the response left for later
Accept_NoResponse(c) == [c EXCEPT !.pc = "go"]

\* chatwoot.go:376-378, part_000:656-658: respond 200, then start the goroutine
Accept(c) == [Respond(c, 200) EXCEPT !.pc = "go"]

\* Handler with the filter letting through what is a created message or is outgoing
Handler_FilterEither(c, missing) ==
    IF c.token = <<>> THEN [Respond(c, missing) EXCEPT !.pc = "done"]
    ELSE IF ~c.jsonOk THEN [Respond(c, 200) EXCEPT !.pc = "done"]
    ELSE IF c.payload.Event # "message_created" /\ c.payload.MessageType # "outgoing"
      THEN [Respond(c, 200) EXCEPT !.pc = "done"]
    ELSE IF ~userinfocacheGet(c.token).found
      THEN [Respond([c EXCEPT !.cfg = cwCfg], 200) EXCEPT !.pc = "done"]
    ELSE Accept([c EXCEPT !.cfg = cwCfg, !.userID = userinfocacheGet(c.token).Id])

\* The handler up to the start of the goroutine.  chatwoot.go:360-378 answers a
\* missing token with 401 (missing = 401); part_000:628-658 answers it with 200.
Handler(c, missing) ==
    IF c.token = <<>> THEN [Respond(c, missing) EXCEPT !.pc = "done"]
    ELSE IF ~c.jsonOk THEN [Respond(c, 200) EXCEPT !.pc = "done"]
    ELSE IF c.payload.Event # "message_created" \/ c.payload.MessageType # "outgoing"
      THEN [Respond(c, 200) EXCEPT !.pc = "done"]
    ELSE IF ~userinfocacheGet(c.token).found
      THEN [Respond([c EXCEPT !.cfg = cwCfg], 200) EXCEPT !.pc = "done"]
    ELSE Accept([c EXCEPT !.cfg = cwCfg, !.userID = userinfocacheGet(c.token).Id])

\* a callback arrives: its token, and a body that is malformed JSON or a payload
Request(i, rev) ==
    {[IdleCb EXCEPT !.rev = rev, !.token = tok, !.jsonOk = TRUE, !.payload = p] :
        tok \in Tokens, p \in Payloads}
    \cup {[IdleCb EXCEPT !.rev = rev, !.token = tok] : tok \in Tokens}

\* chatwoot.go:358-378, for the callback c
HandleChatwootWebhookOf(i, c) ==
    /\ cb[i].pc = "idle"
    /\ cb' = [cb EXCEPT ![i] = Handler(c, 401)]
    /\ UNCHANGED <<cwCfg, configFile, contacts, task, clients, admin>>

\* chatwoot.go:358-378
HandleChatwootWebhook(i) == \E c \in Request(i, "chatwoot.go") : HandleChatwootWebhookOf(i, c)

\* part_000:626-658
HandleChatwootWebhook_p0(i) ==
    /\ cb[i].pc = "idle"
    /\ \E c \in Request(i, "part_000") : cb' = [cb EXCEPT ![i] = Handler(c, 200)]
    /\ UNCHANGED <<cwCfg, configFile, contacts, task, clients, admin>>

\* ------------------------------------------------------------------ webhook delivery

MinPhoneLen == 8

\* TooShort rejecting the empty value only
TooShort_EmptyOnly(phone) == phone = <<>>

\* chatwoot.go:389, part_000:675
TooShort(phone) == Len(phone) < MinPhoneLen

\* chatwoot.go:384-385, part_000:669-672
Recipient(p) == IF p.PhoneNumber = <<>> THEN p.SourceID ELSE p.PhoneNumber

\* CleanPhone without the removal of "+"
CleanPhone_KeepPlus(phone) == TrimSpace(RemoveChar(phone, " "))

\* chatwoot.go:386-388, part_000:673-674
CleanPhone(phone) == TrimSpace(RemoveChar(RemoveChar(phone, "+"), " "))

\* parseJID of the repository's helpers: a value with an "@" is parsed as
\* user@server, any other gets the default server; ok is false on an empty or
\* malformed value
parseJID(arg) ==
    IF arg = <<>> THEN [jid |-> NoJID, ok |-> FALSE]
    ELSE IF ~Contains(arg, "@")
      THEN [jid |-> [User |-> arg, Server |-> DefaultUserServer], ok |-> TRUE]
    ELSE [jid |-> [User |-> BeforeAt(arg), Server |-> AfterAt(arg)],
          ok |-> BeforeAt(arg) # <<>> /\ AfterAt(arg) # <<>> /\ ~Contains(AfterAt(arg), "@")]

\* types.ParseJID of the chat library, as called at part_000:679: a value
\* without "@" is taken as a server with an empty user, and that is no error
ParseJID(arg) ==
    IF ~Contains(arg, "@") THEN [jid |-> [User |-> <<>>, Server |-> arg], err |-> FALSE]
    ELSE [jid |-> [User |-> BeforeAt(arg), Server |-> AfterAt(arg)],
          err |-> Contains(AfterAt(arg), "@")]

\* part_000:679-686
ParseWithFallback(phone) ==
    IF ParseJID(phone).err THEN ParseJID(phone \o <<"@">> \o DefaultUserServer)
    ELSE ParseJID(phone)

\* UnescapeNewlines leaving the escapes as they are
UnescapeNewlines_Keep(s) == s

RECURSIVE UnescapeNewlines(_)
\* strings.ReplaceAll(delimiter, `\n`, "\n")
UnescapeNewlines(s) ==
    IF s = <<>> THEN <<>>
    ELSE IF Len(s) >= 2 /\ SubSeq(s, 1, 2) = EscapedNewline
      THEN Newline \o UnescapeNewlines(SubSeq(s, 3, Len(s)))
    ELSE <<Head(s)>> \o UnescapeNewlines(Tail(s))

\* chatwoot.go:392-399
FinalMessage(cfg, p) ==
    IF cfg.SignMessages /\ p.SenderName # <<>>
    THEN p.Content
         \o UnescapeNewlines(IF cfg.SignatureDelimiter = <<>> THEN Newline ELSE cfg.SignatureDelimiter)
         \o p.SenderName
    ELSE p.Content

\* part_000:693-697
FinalMessage_p0(cfg, p) ==
    IF cfg.SignMessages /\ p.SenderName # <<>>
    THEN p.Content \o UnescapeNewlines(cfg.SignatureDelimiter) \o p.SenderName
    ELSE p.Content

Lookup(c) == [kind |-> "lookup", id |-> c.userID, ready |-> ClientReady(c.userID)]
SendText(jid, text, ok) == [kind |-> "send", to |-> jid, media |-> "text", text |-> text, ok |-> ok]
SendMedia(jid, media, ok) == [kind |-> "send", to |-> jid, media |-> media, text |-> <<>>, ok |-> ok]
Fetch(url, ok) == [kind |-> "fetch", url |-> url, ok |-> ok]

\* The goroutine of chatwoot.go:378-404: look the client up, clean the phone,
\* compose the text, send it; the results of parseJID and SendMessage are dropped
WebhookGoroutine(i) ==
    /\ cb[i].pc = "go"
    /\ cb[i].rev = "chatwoot.go"
    /\ LET c == cb[i]
           phone == CleanPhone(Recipient(c.payload))
           jid == parseJID(phone).jid
       IN  \E ok \in BOOLEAN :
             cb' = [cb EXCEPT ![i] =
               IF ~ClientReady(c.userID)
                 THEN [c EXCEPT !.pc = "done", !.trace = Append(@, Lookup(c))]
               ELSE IF TooShort(phone)
                 THEN [c EXCEPT !.pc = "done", !.trace = Append(@, Lookup(c))]
               ELSE [c EXCEPT !.pc = "done", !.jid = jid,
                              !.trace = @ \o <<Lookup(c), SendText(jid, FinalMessage(c.cfg, c.payload), ok)>>]]
    /\ UNCHANGED <<cwCfg, configFile, contacts, task, clients, admin>>

\* The goroutine of part_000:658-702 up to the attachments: with attachments
\* it goes on to send them one by one, without it sends the text if there is any
WebhookGoroutine_p0(i) ==
    /\ cb[i].pc = "go"
    /\ cb[i].rev = "part_000"
    /\ LET c == cb[i]
           phone == CleanPhone(Recipient(c.payload))
           parsed == ParseWithFallback(phone)
           text == FinalMessage_p0(c.cfg, c.payload)
       IN  \E ok \in BOOLEAN :
             cb' = [cb EXCEPT ![i] =
               IF ~ClientReady(c.userID)
                 THEN [c EXCEPT !.pc = "done", !.trace = Append(@, Lookup(c))]
               ELSE IF TooShort(phone) \/ parsed.err
                 THEN [c EXCEPT !.pc = "done", !.trace = Append(@, Lookup(c))]
               ELSE IF Len(c.payload.Attachments) > 0
                 THEN [c EXCEPT !.pc = "media", !.jid = parsed.jid, !.trace = Append(@, Lookup(c))]
               ELSE IF text # <<>>
                 THEN [c EXCEPT !.pc = "done", !.jid = parsed.jid,
                                !.trace = @ \o <<Lookup(c), SendText(parsed.jid, text, ok)>>]
               ELSE [c EXCEPT !.pc = "done", !.jid = parsed.jid, !.trace = Append(@, Lookup(c))]]
    /\ UNCHANGED <<cwCfg, configFile, contacts, task, clients, admin>>

\* part_000:719-755: image as image, audio as a voice note, the rest as a document
MediaKind(fileType) ==
    IF fileType = "image" THEN "image" ELSE IF fileType = "audio" THEN "ptt" ELSE "document"

\* part_000:706-756, for the next attachment of the list: fetch the URL, upload,
\* send; a failed fetch or upload ends this attachment
sendChatwootMedia(i) ==
    /\ cb[i].pc = "media"
    /\ LET c == cb[i]
           att == c.payload.Attachments[c.next]
           pc == IF c.next = Len(c.payload.Attachments) THEN "done" ELSE "media"
       IN  \E fetched \in BOOLEAN, uploaded \in BOOLEAN, ok \in BOOLEAN :
             cb' = [cb EXCEPT ![i] =
               IF ~fetched
                 THEN [c EXCEPT !.pc = pc, !.next = @ + 1, !.trace = Append(@, Fetch(att.DataUrl, FALSE))]
               ELSE IF ~uploaded
                 THEN [c EXCEPT !.pc = pc, !.next = @ + 1, !.trace = Append(@, Fetch(att.DataUrl, TRUE))]
               ELSE [c EXCEPT !.pc = pc, !.next = @ + 1,
                              !.trace = @ \o <<Fetch(att.DataUrl, TRUE),
                                                SendMedia(c.jid, MediaKind(att.FileType), ok)>>]]
    /\ UNCHANGED <<cwCfg, configFile, contacts, task, clients, admin>>

\* ------------------------------------------------------------------ earlier revisions of the webhook

\* part_000:208-211: the first revision reads the source id only, and strips "+"
Recipient_first(p) == RemoveChar(p.SourceID, "+")

\* The handler of the first revision, part_000:161-232.  It is synchronous: the
\* lookup and the send come before the response.  A handler that returns
\* without writing (part_000:214-217) is answered 200 by net/http.
Handler_first(c, ok) ==
    IF c.token = <<>> THEN [Respond(c, 401) EXCEPT !.pc = "done"]
    ELSE IF ~c.jsonOk THEN [Respond(c, 400) EXCEPT !.pc = "done"]
    ELSE IF c.payload.Event # "message_created" \/ c.payload.MessageType # "outgoing"
      THEN [Respond(c, 200) EXCEPT !.pc = "done"]
    ELSE IF ~userinfocacheGet(c.token).found THEN [Respond(c, 401) EXCEPT !.pc = "done"]
    ELSE LET d == [c EXCEPT !.userID = userinfocacheGet(c.token).Id, !.pc = "done"]
             looked == [d EXCEPT !.trace = Append(@, Lookup(d))]
             parsed == parseJID(Recipient_first(c.payload))
         IN  IF ~ClientReady(d.userID) THEN Respond(looked, 500)
             ELSE IF ~parsed.ok THEN Respond(looked, 200)
             ELSE Respond([looked EXCEPT !.jid = parsed.jid,
                                         !.trace = Append(@, SendText(parsed.jid, c.payload.Content, ok))],
                          200)

\* part_000:161-232
HandleChatwootWebhook_first(i) ==
    /\ cb[i].pc = "idle"
    /\ \E c \in Request(i, "part_000:161"), ok \in BOOLEAN :
          cb' = [cb EXCEPT ![i] = Handler_first(c, ok)]
    /\ UNCHANGED <<cwCfg, configFile, contacts, task, clients, admin>>

MaxPhoneLen == 20

\* The handler of part_002:801-832 up to the start of the goroutine: an
\* unknown session is answered 401
Handler_p2(c) ==
    IF c.token = <<>> THEN [Respond(c, 401) EXCEPT !.pc = "done"]
    ELSE IF ~c.jsonOk THEN [Respond(c, 200) EXCEPT !.pc = "done"]
    ELSE IF c.payload.Event # "message_created" \/ c.payload.MessageType # "outgoing"
      THEN [Respond(c, 200) EXCEPT !.pc = "done"]
    ELSE IF ~userinfocacheGet(c.token).found THEN [Respond(c, 401) EXCEPT !.pc = "done"]
    ELSE Accept([c EXCEPT !.userID = userinfocacheGet(c.token).Id])

\* part_002:801-832
HandleChatwootWebhook_p2(i) ==
    /\ cb[i].pc = "idle"
    /\ \E c \in Request(i, "part_002:801") : cb' = [cb EXCEPT ![i] = Handler_p2(c)]
    /\ UNCHANGED <<cwCfg, configFile, contacts, task, clients, admin>>

\* part_002:853-854
CleanPhone_p2(phone) == RemoveChar(RemoveChar(phone, "+"), " ")

\* part_002:857: a value that long is a UUID, not a phone
Implausible_p2(phone) == Len(phone) > MaxPhoneLen \/ Len(phone) < MinPhoneLen

\* The goroutine of part_002:832-869
WebhookGoroutine_p2(i) ==
    /\ cb[i].pc = "go"
    /\ cb[i].rev = "part_002:801"
    /\ LET c == cb[i]
           phone == CleanPhone_p2(Recipient(c.payload))
           jid == parseJID(phone).jid
       IN  \E ok \in BOOLEAN :
             cb' = [cb EXCEPT ![i] =
               IF ~ClientReady(c.userID)
                 THEN [c EXCEPT !.pc = "done", !.trace = Append(@, Lookup(c))]
               ELSE IF Implausible_p2(phone)
                 THEN [c EXCEPT !.pc = "done", !.trace = Append(@, Lookup(c))]
               ELSE [c EXCEPT !.pc = "done", !.jid = jid,
                              !.trace = @ \o <<Lookup(c), SendText(jid, c.payload.Content, ok)>>]]
    /\ UNCHANGED <<cwCfg, configFile, contacts, task, clients, admin>>

\* ------------------------------------------------------------------ specification

InitialContacts == {<<>>, <<[id |-> 3, phone |-> <<"+">> \o UserA]>>}

Init ==
    /\ configFile \in Files
    /\ \E env \in Envs : cwCfg = loadConfig(configFile, env)
    /\ contacts \in InitialContacts
    /\ task = [t \in Tasks |-> IdleTask]
    /\ clients \in [{"u1"} -> BOOLEAN]
    /\ cb = [i \in Callbacks |-> IdleCb]
    /\ admin = [a \in Admins |-> IdleAdmin]

NextRelay ==
    \E t \in Tasks :
        \/ ProcessEvent(t)
        \/ EventHandler(t)
        \/ RelayGoroutine(t)
        \/ SendToChatwoot(t)
        \/ SendAttachmentToChatwoot(t)
        \/ getOrCreateContact_search(t)
        \/ getOrCreateContact_create(t)
        \/ sendConversation(t)

\* the relay alone: the chat client stays connected, no callback arrives
InitRelay == Init /\ clients = [u \in {"u1"} |-> TRUE]

SpecRelay == InitRelay /\ [][NextRelay]_vars

NextWebhook ==
    \/ \E i \in Callbacks :
          \/ HandleChatwootWebhook(i)
          \/ HandleChatwootWebhook_p0(i)
          \/ WebhookGoroutine(i)
          \/ WebhookGoroutine_p0(i)
          \/ sendChatwootMedia(i)
    \/ Connect("u1")
    \/ Disconnect("u1")

\* the webhook alone: no chat event arrives, the case system is not called
InitWebhook == Init /\ contacts = <<>>

SpecWebhook == InitWebhook /\ [][NextWebhook]_vars

Next == NextRelay \/ NextWebhook

Spec == Init /\ [][Next]_vars

\* the relay of the first revision (part_000:50-157): the search and the post
\* are those of chatwoot.go, line for line
NextRelay_p0 ==
    \E t \in Tasks :
        \/ SendToChatwoot_p0(t)
        \/ getOrCreateContact_search(t)
        \/ getOrCreateContact_create_p0(t)
        \/ sendConversation(t)

\* the first revision has no chatwoot.json
InitRelay_p0 == InitRelay /\ configFile = NoFile

SpecRelay_p0 == InitRelay_p0 /\ [][NextRelay_p0]_vars

\* the earlier revisions of the webhook: part_000:161-232 and part_002:801-871
NextWebhookOld ==
    \/ \E i \in Callbacks :
          \/ HandleChatwootWebhook_first(i)
          \/ HandleChatwootWebhook_p2(i)
          \/ WebhookGoroutine_p2(i)
    \/ Connect("u1")
    \/ Disconnect("u1")

SpecWebhookOld == InitWebhook /\ [][NextWebhookOld]_vars


\* ------------------------------------------------------------------ properties of the webhook

Handled(c) == c.pc # "idle"

\* the payload does not pass the filter of chatwoot.go:366
Filtered(c) ==
    c.jsonOk /\ (c.payload.Event # "message_created" \/ c.payload.MessageType # "outgoing")

EventsOfKind(c, kind) == SelectSeq(c.trace, LAMBDA e : e.kind = kind)
Sends(c) == EventsOfKind(c, "send")
DeliveryWork(c) == SelectSeq(c.trace, LAMBDA e : e.kind # "respond")

\* C1, as stated: a callback whose event is not "message_created" or whose
\* message_type is not "outgoing" is answered 200 and causes no send, whatever
\* its token is.
C1_FilteredIs200 ==
    \A i \in Callbacks :
        Handled(cb[i]) /\ Filtered(cb[i]) => cb[i].status = 200 /\ Sends(cb[i]) = <<>>

\* C1, amended: a callback whose event is not "message_created" or whose
\* message_type is not "outgoing" causes no send and no other delivery work,
\* whatever its other fields, its token and the configuration are; it is
\* answered 200 when its token is not empty, and 401 or 200 (by revision) when
\* it is.
C1_FilteredNeverSends ==
    \A i \in Callbacks :
        Handled(cb[i]) /\ Filtered(cb[i]) =>
            /\ cb[i].pc = "done"
            /\ DeliveryWork(cb[i]) = <<>>
            /\ cb[i].token # <<>> => cb[i].status = 200
            /\ cb[i].token = <<>> => cb[i].status = (IF cb[i].rev = "chatwoot.go" THEN 401 ELSE 200)

C1_Witness ==
    \E i \in Callbacks :
        /\ cb[i].pc = "done"
        /\ cb[i].payload.Event = "message_created"
        /\ cb[i].payload.MessageType = "incoming"
        /\ cb[i].payload.PhoneNumber = PhonePlusA
        /\ cb[i].token = Tok1
        /\ clients["u1"]
        /\ cb[i].status = 200
        /\ Sends(cb[i]) = <<>>

\* C3: the response is 401 exactly when the token is empty, and 200 otherwise.
C3_401IffNoToken ==
    \A i \in Callbacks :
        Handled(cb[i]) =>
            /\ cb[i].status = 401 <=> cb[i].token = <<>>
            /\ cb[i].token # <<>> => cb[i].status = 200

\* C4: whatever a callback does for its delivery (client lookup, attachment
\* fetch, send) comes after its one response, which is 200 and stays 200
\* whatever the delivery's outcome.
C4_ResponseBeforeDelivery ==
    \A i \in Callbacks :
        DeliveryWork(cb[i]) # <<>> =>
            /\ cb[i].trace[1] = [kind |-> "respond", status |-> 200]
            /\ Len(EventsOfKind(cb[i], "respond")) = 1
            /\ cb[i].status = 200

C4_Witness ==
    \E i \in Callbacks :
        /\ cb[i].pc = "done"
        /\ cb[i].status = 200
        /\ \E k \in 1..Len(cb[i].trace) : cb[i].trace[k].kind = "fetch"
        /\ \E k \in 1..Len(cb[i].trace) : cb[i].trace[k].kind = "send" /\ ~cb[i].trace[k].ok

\* "+" and then at least MinPhoneLen digits, spaces allowed
PlausiblePhone(p) ==
    /\ p # <<>> /\ Head(p) = "+"
    /\ \A k \in 2..Len(p) : IsDigit(p[k]) \/ p[k] = " "
    /\ Len(SelectSeq(p, IsDigit)) >= MinPhoneLen

\* what IsConnected answered when the goroutine looked its client up
FoundConnected(c) == EventsOfKind(c, "lookup") # <<>> /\ EventsOfKind(c, "lookup")[1].ready

\* C6: chatwoot.go's handler, given an outgoing "message_created" without
\* attachments, with a plausible contact phone, a registered token, a connected
\* client and signing off, sends exactly one text: to the phone's digits at the
\* default server, with the payload's content.
C6_OneTextSend ==
    \A i \in Callbacks :
        LET c == cb[i] IN
        /\ c.rev = "chatwoot.go" /\ c.pc = "done"
        /\ c.jsonOk /\ c.payload.Event = "message_created" /\ c.payload.MessageType = "outgoing"
        /\ c.payload.Attachments = <<>>
        /\ PlausiblePhone(c.payload.PhoneNumber)
        /\ userinfocacheGet(c.token).found
        /\ FoundConnected(c)
        /\ ~c.cfg.SignMessages
        => /\ Len(Sends(c)) = 1
           /\ Sends(c)[1].media = "text"
           /\ Sends(c)[1].to = [User |-> SelectSeq(c.payload.PhoneNumber, IsDigit),
                                Server |-> DefaultUserServer]
           /\ Sends(c)[1].text = c.payload.Content

C6_Witness ==
    \E i \in Callbacks :
        /\ cb[i].rev = "chatwoot.go" /\ cb[i].pc = "done"
        /\ cb[i].payload.PhoneNumber = PhonePlusA
        /\ cb[i].payload.Content = TextReply
        /\ cb[i].payload.Attachments = <<>>
        /\ ~cb[i].cfg.SignMessages
        /\ Len(Sends(cb[i])) = 1
        /\ Sends(cb[i])[1].text = TextReply


\* ------------------------------------------------------------------ properties of the relay

SearchCall(t) == CallsOf(t, "search")[1]
CreateCall(t) == CallsOf(t, "create")[1]

Answered200(call) == ~call.resp.err /\ call.resp.status = 200
CreateGaveId(call) == Answered200(call) /\ call.resp.ids # <<>> /\ call.resp.ids[1] # 0

\* "+" and the digits of the user part of a chat identity
PlusDigits(sender) == <<"+">> \o SelectSeq(BeforeAt(sender), IsDigit)

\* C2: a relay that found the integration disabled, or the base URL or the
\* API token empty, has made no HTTP call, and makes none.
C2_DisabledNoCalls ==
    \A t \in Tasks :
        ~task[t].cfg.Enabled \/ task[t].cfg.URL = <<>> \/ task[t].cfg.Token = <<>> =>
            /\ task[t].calls = <<>>
            /\ task[t].pc \notin {"search", "create", "post"}

\* a text relay and a media relay, both returned without a call: one under
\* enabled=true with an empty URL or token
C2_Witness ==
    \E t, u \in Tasks :
        /\ task[t].pc = "done" /\ task[t].args.text # <<>> /\ task[t].args.fileData = <<>>
        /\ task[u].pc = "done" /\ task[u].args.fileData # <<>>
        /\ task[t].cfg = cwCfg /\ task[u].cfg = cwCfg
        /\ cwCfg.Enabled /\ (cwCfg.URL = <<>> \/ cwCfg.Token = <<>>)
        /\ task[t].calls = <<>> /\ task[u].calls = <<>>

\* C5: a text relay whose search answers 200 with no match, and whose every
\* call succeeds, makes exactly a search, a create with source_id "+" and the
\* sender's digits, and a post with the created contact's id and the text.
C5_SearchCreatePost ==
    \A t \in Tasks :
        LET r == task[t] IN
        /\ r.pc = "done" /\ r.calls # <<>> /\ r.args.fileData = <<>>
        /\ r.calls[1].resp = Resp(FALSE, 200, <<>>)
        /\ \A k \in 1..Len(r.calls) :
              /\ Answered200(r.calls[k])
              /\ r.calls[k].kind = "create" => CreateGaveId(r.calls[k])
        => /\ Kinds(t) = <<"search", "create", "post">>
           /\ QueryUnescape(r.calls[1].q) = PlusDigits(r.Sender)
           /\ r.calls[2].source_id = PlusDigits(r.Sender)
           /\ r.calls[3].contact_id = r.calls[2].resp.ids[1]
           /\ r.calls[3].content = r.msg.Conversation[1]
           /\ r.calls[3].file = <<>>

C5_Witness ==
    \E t \in Tasks :
        /\ task[t].pc = "done"
        /\ task[t].Sender = SenderA /\ task[t].PushName = NameCarlos
        /\ Kinds(t) = <<"search", "create", "post">>
        /\ \A k \in 1..3 : Answered200(task[t].calls[k])
        /\ task[t].calls[1].resp.ids = <<>>
        /\ task[t].calls[2].source_id = <<"+">> \o UserA
        /\ task[t].calls[3].content = TextOi

\* C7: of two resolutions of the same phone, one after the other, where the
\* first created the contact and the second's search returns it, both yield
\* that contact's id, and only the first issued a create.
C7_SecondCallReuses ==
    \A t, u \in Tasks :
        /\ t \in task[u].after
        /\ task[t].phone = task[u].phone
        /\ CallsOf(t, "create") # <<>> /\ CreateGaveId(CreateCall(t))
        /\ CallsOf(u, "search") # <<>> /\ Answered200(SearchCall(u))
        /\ SearchCall(u).resp.ids # <<>>
        /\ SearchCall(u).resp.ids[1] = CreateCall(t).resp.ids[1]
        => /\ task[t].contactID = CreateCall(t).resp.ids[1]
           /\ task[u].contactID = task[t].contactID
           /\ Len(CallsOf(t, "create")) + Len(CallsOf(u, "create")) = 1

C7_Witness ==
    \E t, u \in Tasks :
        /\ t \in task[u].after
        /\ task[t].phone = task[u].phone
        /\ CallsOf(t, "create") # <<>> /\ CreateGaveId(CreateCall(t))
        /\ task[u].pc = "done"
        /\ Kinds(u) = <<"search", "post">>
        /\ task[u].contactID = CreateCall(t).resp.ids[1]

\* C8: after a search that answered 200 with at least one match, the resolver
\* has returned the first match's id and issues no create.
C8_FirstMatchNoCreate ==
    \A t \in Tasks :
        /\ CallsOf(t, "search") # <<>>
        /\ Answered200(SearchCall(t)) /\ SearchCall(t).resp.ids # <<>>
        => /\ task[t].contactID = SearchCall(t).resp.ids[1]
           /\ CallsOf(t, "create") = <<>>
           /\ task[t].pc # "create"

\* two matches, the first of them returned
C8_Witness ==
    \E t \in Tasks :
        /\ CallsOf(t, "search") # <<>>
        /\ Len(SearchCall(t).resp.ids) = 2
        /\ task[t].contactID = SearchCall(t).resp.ids[1]
        /\ task[t].pc = "done"
        /\ CallsOf(t, "post") # <<>>

\* the contact a post is for: a number in the JSON post, its decimal text in
\* the multipart post
ContactOf(call) == IF call.form = "multipart" THEN Atoi(call.contact_id) ELSE call.contact_id

\* C9: after a search that failed (transport error or a status other than
\* 200) the resolver goes on to the create, and when the create answers 200
\* with a contact id the relay goes on to post the message to that contact.
C9_FailedSearchStillCreates ==
    \A t \in Tasks :
        LET r == task[t] IN
        r.calls # <<>> /\ ~Answered200(r.calls[1]) =>
            /\ r.pc = "create" \/ (Len(r.calls) >= 2 /\ r.calls[2].kind = "create")
            /\ Len(r.calls) >= 2 /\ CreateGaveId(r.calls[2]) =>
                 \/ r.pc = "post" /\ r.contactID = r.calls[2].resp.ids[1]
                 \/ /\ Len(r.calls) = 3 /\ r.calls[3].kind = "post"
                    /\ ContactOf(r.calls[3]) = r.calls[2].resp.ids[1]

C9_Witness ==
    \E t \in Tasks :
        /\ task[t].pc = "done"
        /\ Kinds(t) = <<"search", "create", "post">>
        /\ task[t].calls[1].resp.err
        /\ CreateGaveId(task[t].calls[2])

\* the create did not go through: a transport error, or a rejection
CreateFailed(call) == call.resp.err \/ call.resp.status >= 400

\* C10: after a create that failed the resolver has returned 0 and the relay
\* is over: no post, and one search and one create, none repeated.
C10_FailedCreateAbandons ==
    \A t \in Tasks :
        CallsOf(t, "create") # <<>> /\ CreateFailed(CreateCall(t)) =>
            /\ task[t].contactID = 0
            /\ task[t].pc = "done"
            /\ Kinds(t) = <<"search", "create">>

C10_Witness ==
    \E t \in Tasks :
        /\ task[t].pc = "done"
        /\ Kinds(t) = <<"search", "create">>
        /\ ~task[t].calls[2].resp.err /\ task[t].calls[2].resp.status = 422
        /\ task[t].contactID = 0

\* ------------------------------------------------------------------ properties of the create request

CreateCalls(t) == CallsOf(t, "create")

\* C11: every create request of the resolver carries source_id and
\* phone_number, both the normalized phone the resolver was given, with the
\* configured inbox id and the display name.
C11_CreateCarriesSourceId ==
    \A t \in Tasks : \A k \in 1..Len(CreateCalls(t)) :
        LET call == CreateCalls(t)[k] IN
        /\ "source_id" \in DOMAIN call
        /\ call.source_id = task[t].phone
        /\ call.phone_number = task[t].phone
        /\ call.inbox_id = Atoi(task[t].cfg.InboxID)
        /\ call.name = task[t].args.pushName

\* ------------------------------------------------------------------ at-most-once delivery

\* the relay operations, SendToChatwoot and SendAttachmentToChatwoot, about to run
RelayOps == {"text", "attach"}

\* the positions of a task inside or after its relay operation
InRelay == {"text", "attach", "search", "create", "post", "done"}

\* C12: an inbound chat event enters at most one relay operation, a text relay
\* or an attachment relay, and never a second one; a relay that is over stays
\* over; and a task never has more than one conversation post, whatever the
\* case system answered.
C12_AtMostOnce ==
    [][\A t \in Tasks :
          /\ task[t].pc \in InRelay =>
                /\ task'[t].pc \in InRelay
                /\ task'[t].pc \in RelayOps => task'[t].pc = task[t].pc
          /\ task[t].pc = "done" => task'[t] = task[t]
          /\ (task[t].args.fileData = <<>>) = (task'[t].args.fileData = <<>>) \/ task[t].pc = "go"
          /\ Len(CallsOf(t, "post"))' <= 1
          /\ \A k \in 1..Len(task'[t].calls) :
                task'[t].calls[k].kind = "post" =>
                    /\ k = Len(task'[t].calls)
                    /\ task'[t].calls[k].file = task'[t].args.fileData
      ]_vars

\* a text relay and an attachment relay, each over after one post, the text
\* relay's post having failed
C12_Witness ==
    \E t, u \in Tasks :
        /\ task[t].pc = "done" /\ task[t].args.fileData = <<>>
        /\ Len(CallsOf(t, "post")) = 1 /\ CallsOf(t, "post")[1].resp.err
        /\ task[u].pc = "done" /\ task[u].args.fileData # <<>>
        /\ Len(CallsOf(u, "post")) = 1 /\ CallsOf(u, "post")[1].file = ImageBytes

\* ------------------------------------------------------------------ recipients of the webhook

\* the callback passed the token test, the decoding, the filter and the
\* session lookup: its delivery was started
Accepted(c) ==
    /\ c.token # <<>> /\ c.jsonOk
    /\ c.payload.Event = "message_created" /\ c.payload.MessageType = "outgoing"
    /\ userinfocacheGet(c.token).found

\* C13: an accepted callback whose recipient value is a 36-character
\* UUID-shaped string causes no send.
C13_UuidNeverSent ==
    \A i \in Callbacks :
        Accepted(cb[i]) /\ Recipient(cb[i].payload) = UuidLike => Sends(cb[i]) = <<>>

\* what the identity parser of the callback's handler reports for its recipient
ParsedOk(c) ==
    IF c.rev = "chatwoot.go" THEN parseJID(CleanPhone(Recipient(c.payload))).ok
    ELSE IF c.rev = "part_000" THEN ~ParseWithFallback(CleanPhone(Recipient(c.payload))).err
    ELSE IF c.rev = "part_002:801" THEN parseJID(CleanPhone_p2(Recipient(c.payload))).ok
    ELSE parseJID(Recipient_first(c.payload)).ok

\* C14: a callback sends only when parsing its recipient into a chat identity
\* succeeded; a callback whose recipient does not parse sends nothing.
C14_SendOnlyIfParsed ==
    \A i \in Callbacks : Sends(cb[i]) # <<>> => ParsedOk(cb[i])

\* the recipient value without "+" and spaces
Stripped(p) == RemoveChar(RemoveChar(Recipient(p), "+"), " ")

\* C15: an accepted callback whose recipient, once "+" and spaces are
\* stripped, has fewer than 8 characters (none included) causes no send, and
\* is not on its way to one.
C15_ShortNeverSent ==
    \A i \in Callbacks :
        Accepted(cb[i]) /\ Len(Stripped(cb[i].payload)) < 8 =>
            /\ Sends(cb[i]) = <<>>
            /\ cb[i].pc # "media"

\* "+123" with a connected client: looked up, then dropped
C15_Witness ==
    \E i \in Callbacks :
        /\ Accepted(cb[i]) /\ cb[i].pc = "done"
        /\ cb[i].payload.PhoneNumber = PhoneShort
        /\ cb[i].payload.SourceID = UserB
        /\ FoundConnected(cb[i])
        /\ Sends(cb[i]) = <<>>

\* ------------------------------------------------------------------ sessions and clients

\* the callback passed the filter, and its token is in no session of the registry
UnknownSession(c) ==
    /\ Handled(c) /\ c.token # <<>> /\ c.jsonOk
    /\ c.payload.Event = "message_created" /\ c.payload.MessageType = "outgoing"
    /\ ~userinfocacheGet(c.token).found

\* C16: a callback that passed the filter and whose token is in no session is
\* answered 200, and no client is looked up and nothing is sent for it.
C16_UnknownSession200 ==
    \A i \in Callbacks :
        UnknownSession(cb[i]) =>
            /\ cb[i].status = 200
            /\ cb[i].pc = "done"
            /\ DeliveryWork(cb[i]) = <<>>

\* the client registered under the id is there and connected, now
ConnectedNow(id) == id \in DOMAIN clients /\ clients[id]

Fetches(c) == EventsOfKind(c, "fetch")

\* C17: when the goroutine of a callback runs while the chat client of its
\* session is absent from the registry or not connected, the callback is over
\* with that step: nothing was fetched, nothing was sent, nothing will be.
C17_NoClientNoDelivery ==
    [][\A i \in Callbacks :
          cb[i].pc = "go" /\ ~ConnectedNow(cb[i].userID) /\ cb'[i] # cb[i] =>
              /\ cb'[i].pc = "done"
              /\ Sends(cb[i])' = <<>>
              /\ Fetches(cb[i])' = <<>>
      ]_vars

\* a reply with an attachment and a good phone, dropped because the session's
\* client was disconnected when the goroutine ran
C17_Witness ==
    \E i \in Callbacks :
        /\ cb[i].pc = "done" /\ Accepted(cb[i])
        /\ cb[i].payload.PhoneNumber = PhonePlusA
        /\ cb[i].payload.Attachments # <<>>
        /\ cb[i].userID = "u1"
        /\ EventsOfKind(cb[i], "lookup") # <<>>
        /\ ~FoundConnected(cb[i])
        /\ Sends(cb[i]) = <<>> /\ Fetches(cb[i]) = <<>>

\* ------------------------------------------------------------------ the recipient field

\* the field the recipient is to be taken from: the contact's phone number,
\* and the source id only when there is no phone number
PreferredField(p) == IF p.PhoneNumber # <<>> THEN p.PhoneNumber ELSE p.SourceID

\* a chat identity, written user@server
JidText(jid) == jid.User \o <<"@">> \o jid.Server

\* C18: whatever a callback sends goes to the identity made from the
\* contact's phone-number field when that field is not empty, and from the
\* source-id field only when it is.
C18_PhoneFieldPreferred ==
    \A i \in Callbacks : \A k \in 1..Len(Sends(cb[i])) :
        ContainsSub(JidText(Sends(cb[i])[k].to),
                    RemoveChar(RemoveChar(PreferredField(cb[i].payload), "+"), " "))

\* ------------------------------------------------------------------ the signature

RECURSIVE WithNewlines(_)
\* the delimiter with each backslash-n pair read as one newline
WithNewlines(d) ==
    IF Len(d) < 2 THEN d
    ELSE IF d[1] = "\\" /\ d[2] = "n" THEN <<"LF">> \o WithNewlines(SubSeq(d, 3, Len(d)))
    ELSE <<d[1]>> \o WithNewlines(Tail(d))

TextSends(c) == SelectSeq(c.trace, LAMBDA e : e.kind = "send" /\ e.media = "text")

Signing(c) == c.cfg.SignMessages /\ c.payload.SenderName # <<>>

\* C19, as stated: a text reply is delivered as the content, the signature
\* delimiter with its backslash-n escapes read as newlines, and the sender
\* name, when sign_messages is on and the sender has a name; as the content
\* alone otherwise.
C19_SignedAsStated ==
    \A i \in Callbacks : \A k \in 1..Len(TextSends(cb[i])) :
        TextSends(cb[i])[k].text =
            IF Signing(cb[i])
            THEN cb[i].payload.Content \o WithNewlines(cb[i].cfg.SignatureDelimiter)
                 \o cb[i].payload.SenderName
            ELSE cb[i].payload.Content

\* the delimiter a handler signs with: chatwoot.go:395 takes a newline for an
\* empty delimiter, part_000:695 takes the delimiter as it is
SigningDelimiter(c) ==
    IF c.rev = "chatwoot.go" /\ c.cfg.SignatureDelimiter = <<>> THEN <<"LF">>
    ELSE WithNewlines(c.cfg.SignatureDelimiter)

\* C19, amended: as stated, except that the handler of chatwoot.go signs with
\* a newline when the configured delimiter is empty.
C19_SignedWithDefault ==
    \A i \in Callbacks : \A k \in 1..Len(TextSends(cb[i])) :
        TextSends(cb[i])[k].text =
            IF Signing(cb[i])
            THEN cb[i].payload.Content \o SigningDelimiter(cb[i]) \o cb[i].payload.SenderName
            ELSE cb[i].payload.Content

\* "Reply", delimiter backslash-n, sender "Ana": delivered as "Reply", newline, "Ana"
C19_Witness ==
    \E i \in Callbacks :
        /\ cb[i].pc = "done"
        /\ cb[i].cfg.SignMessages /\ cb[i].cfg.SignatureDelimiter = <<"\\", "n">>
        /\ cb[i].payload.Content = TextReply /\ cb[i].payload.SenderName = NameAna
        /\ Len(TextSends(cb[i])) = 1
        /\ TextSends(cb[i])[1].text = TextReply \o <<"LF">> \o NameAna

\* ------------------------------------------------------------------ ignored identities

\* the chat identity has one of the configured patterns as a substring
IgnoredChat(chat) ==
    \E k \in 1..Len(cwCfg.IgnoreJIDs) :
        \E a \in 0..Len(chat) : \E b \in a..Len(chat) :
            SubSeq(chat, a + 1, b) = cwCfg.IgnoreJIDs[k]

\* C20: an inbound chat event whose chat identity contains a configured
\* ignored pattern never reaches a relay operation: it has made no HTTP call
\* and is either waiting for the test or dropped.
C20_IgnoredNoCalls ==
    \A t \in Tasks :
        task[t].pc # "idle" /\ task[t].rev # "part_000" /\ IgnoredChat(task[t].Chat) =>
            /\ task[t].calls = <<>>
            /\ task[t].pc \in {"go", "done"}

\* a fresh text message of a group chat, dropped under a configured and
\* enabled integration that ignores "g.us"
C20_Witness ==
    \E t \in Tasks :
        /\ task[t].pc = "done" /\ ~task[t].old
        /\ task[t].Chat = GroupChat /\ task[t].msg = MsgText
        /\ cwCfg = CfgOn
        /\ task[t].calls = <<>>


\* ------------------------------------------------------------------ the phone normalisations

\* part_005:24: as part_000:62
ToCasePhone_p5(senderUser) == <<"+">> \o senderUser

\* the digit strings given to the normalisations
DigitStrings == UNION {[1..n -> {"1", "5"}] : n \in MinPhoneLen..MaxDigits}

\* what SendToChatwoot is given as senderUser: the bare digits, the digits with
\* a "+", and the chat identity of clients.go:288 (Sender.String()) without and
\* with a "+"
SenderUsers ==
    UNION {{d, <<"+">> \o d, JidString(d, DefaultUserServer),
            <<"+">> \o JidString(d, DefaultUserServer)} : d \in DigitStrings}

RelayRevisions == {"chatwoot.go", "part_000", "part_005"}

PhoneBy(rev, senderUser) ==
    IF rev = "chatwoot.go" THEN ToCasePhone(senderUser)
    ELSE IF rev = "part_000" THEN ToCasePhone_p0(senderUser)
    ELSE ToCasePhone_p5(senderUser)

\* the normalisation of a revision applied to the argument of the call
Normalize(t) ==
    /\ task[t].pc = "idle"
    /\ task[t].args.senderUser # <<>>
    /\ \E rev \in RelayRevisions :
         task' = [task EXCEPT ![t] =
                    [@ EXCEPT !.pc = "normalized", !.rev = rev,
                              !.phone = PhoneBy(rev, task[t].args.senderUser)]]
    /\ UNCHANGED <<cwCfg, configFile, contacts, clients, cb, admin>>

\* the same normalisation applied to its own result
Renormalize(t) ==
    /\ task[t].pc = "normalized"
    /\ task' = [task EXCEPT ![t] =
                  [@ EXCEPT !.pc = "again", !.args.senderUser = task[t].phone,
                            !.phone = PhoneBy(task[t].rev, task[t].phone)]]
    /\ UNCHANGED <<cwCfg, configFile, contacts, clients, cb, admin>>

InitOutbound ==
    /\ configFile = NoFile
    /\ cwCfg = loadConfig(NoFile, CHOOSE env \in Envs : env.URL = <<>>)
    /\ contacts = <<>>
    /\ \E u \in SenderUsers :
         task = [t \in Tasks |-> IF t = 1 THEN [IdleTask EXCEPT !.args.senderUser = u]
                                 ELSE IdleTask]
    /\ clients = [u \in {"u1"} |-> TRUE]
    /\ cb = [i \in Callbacks |-> IdleCb]
    /\ admin = [a \in Admins |-> IdleAdmin]

NextOutbound == \E t \in Tasks : Normalize(t) \/ Renormalize(t)

SpecOutbound == InitOutbound /\ [][NextOutbound]_vars

\* the chat identity built from a digit string of at least MinPhoneLen digits
IsChatIdentity(s) == \E d \in DigitStrings : s = JidString(d, DefaultUserServer)

\* C21: for a bare digit string d of at least 8 digits, the outbound
\* normalisation of the chat identity d@<transport domain> is "+" followed by d
C21_IdentityToPlusDigits ==
    \A t \in Tasks :
        (task[t].pc = "normalized" /\ IsChatIdentity(task[t].args.senderUser))
            => task[t].phone = <<"+">> \o BeforeAt(task[t].args.senderUser)

CountChar(s, ch) == Len(SelectSeq(s, LAMBDA x : x = ch))

OnePlusInFront(s) == s # <<>> /\ s[1] = "+" /\ CountChar(s, "+") = 1

\* C22: the outbound normalisation never double-prefixes: its result has
\* exactly one "+", at position one, and applied to its own result it returns
\* that value unchanged
C22_NoDoublePrefix ==
    \A t \in Tasks :
        /\ task[t].pc \in {"normalized", "again"} => OnePlusInFront(task[t].phone)
        /\ task[t].pc = "again" => task[t].phone = task[t].args.senderUser


\* ------------------------------------------------------------------ the recipient normalisation

\* the phone numbers of the contact in a callback: the digits with a "+", and
\* the bare digits
ContactPhones == UNION {{<<"+">> \o d, d} : d \in DigitStrings}

\* an outgoing created message for the contact with that phone number
ReplyTo(phone) ==
    [EmptyPayload EXCEPT !.Event = "message_created", !.MessageType = "outgoing",
                         !.Content = TextReply, !.PhoneNumber = phone]

\* the callbacks accepted by the handler of chatwoot.go:358-378 and of
\* part_000:626-658, their goroutines about to run
InitInbound ==
    /\ configFile = NoFile
    /\ cwCfg = loadConfig(NoFile, CHOOSE env \in Envs : env.URL = <<>>)
    /\ contacts = <<>>
    /\ task = [t \in Tasks |-> IdleTask]
    /\ clients = [u \in {"u1"} |-> TRUE]
    /\ \E phone \in ContactPhones, rev \in {"chatwoot.go", "part_000"} :
         cb = [i \in Callbacks |->
                 Handler([IdleCb EXCEPT !.rev = rev, !.token = Tok1, !.jsonOk = TRUE,
                                        !.payload = ReplyTo(phone)], 200)]
    /\ admin = [a \in Admins |-> IdleAdmin]

NextInbound == \E i \in Callbacks : WebhookGoroutine(i) \/ WebhookGoroutine_p0(i)

SpecInbound == InitInbound /\ [][NextInbound]_vars

PlusThenDigits(phone) == phone # <<>> /\ phone[1] = "+" /\ Tail(phone) \in DigitStrings

\* C23: for a bare digit string d of at least 8 digits, the recipient
\* normalisation of the webhook applied to "+" followed by d is ok (the message
\* is sent) and the recipient is the chat identity d@<default transport domain>
C23_PlusDigitsToIdentity ==
    \A i \in Callbacks :
        (cb[i].pc = "done" /\ PlusThenDigits(cb[i].payload.PhoneNumber))
            => /\ Len(Sends(cb[i])) = 1
               /\ Sends(cb[i])[1].to =
                      [User |-> Tail(cb[i].payload.PhoneNumber), Server |-> DefaultUserServer]


\* ------------------------------------------------------------------ the configuration store

\* a request that has replaced the memory and is not through with the file
InFlight(r) == r.pc \in {"create", "encode"}

\* request a starts as r: it has run together with every request in flight
Started(a, r) ==
    [x \in Admins |->
        IF x = a THEN [r EXCEPT !.overlap = \E y \in Admins \ {a} : InFlight(admin[y])]
        ELSE IF InFlight(admin[x]) THEN [admin[x] EXCEPT !.overlap = TRUE]
        ELSE admin[x]]

\* Replaced keeping the old value
Replaced_Kept(old, new) == old

\* chatwoot.go:83-85, part_003:85-87: cwCfg = cfg under the write lock
Replaced(old, new) == new

\* chatwoot.go:150-161 and 82-85: a wrong admin token is answered 401 and a
\* malformed body 400; otherwise the decoded configuration replaces cwCfg under
\* the write lock, with no validation
HandleSetChatwootConfig(a) ==
    /\ admin[a].pc = "idle"
    /\ \/ \E code \in {401, 400} :
            /\ admin' = [admin EXCEPT ![a] =
                           [IdleAdmin EXCEPT !.pc = "rejected", !.rev = "chatwoot.go", !.status = code]]
            /\ UNCHANGED cwCfg
       \/ \E c \in Configs :
            /\ cwCfg' = Replaced(cwCfg, c)
            /\ admin' = Started(a, [IdleAdmin EXCEPT !.pc = "create", !.rev = "chatwoot.go", !.cfg = c])
    /\ UNCHANGED <<configFile, contacts, task, clients, cb>>

\* chatwoot.go:86 and part_000:316: os.Create(configFile), outside the lock;
\* it empties the file, or fails and the error is dropped
saveConfigToDisk_create(a) ==
    /\ admin[a].pc = "create"
    /\ admin[a].rev \in {"chatwoot.go", "part_000"}
    /\ \E ok \in BOOLEAN :
         /\ configFile' = IF ok THEN EmptyFile ELSE configFile
         /\ admin' = [admin EXCEPT ![a] = [@ EXCEPT !.pc = "encode", !.created = ok]]
    /\ UNCHANGED <<cwCfg, contacts, task, clients, cb>>

\* chatwoot.go:87-88 and 162-163, part_000:317-318 and 486-492: Encode writes
\* the JSON in one write, which fails on the nil file of a failed Create and
\* may fail on the disk; the error is dropped, the file is closed and the
\* request is answered with success
saveConfigToDisk_encode(a) ==
    /\ admin[a].pc = "encode"
    /\ admin[a].rev \in {"chatwoot.go", "part_000"}
    /\ \E ok \in BOOLEAN :
         LET written == admin[a].created /\ ok
         IN  /\ configFile' = IF written THEN FileOf(admin[a].cfg) ELSE configFile
             /\ admin' = [admin EXCEPT ![a] =
                            [@ EXCEPT !.pc = "done", !.written = written, !.status = 200]]
    /\ UNCHANGED <<cwCfg, contacts, task, clients, cb>>

\* ChatwootConfig of part_003:22-27 has the four connection fields only
Tags_p3 == {"url", "token", "account_id", "inbox_id"}
Config_p3(c) ==
    [DefaultCfg EXCEPT !.URL = c.URL, !.Token = c.Token, !.AccountID = c.AccountID,
                       !.InboxID = c.InboxID]

\* json.NewEncoder(file).Encode(newCfg), part_003:96
Encode_p3(cfg) == [tag \in Tags_p3 |-> cfg[FieldOf(tag)]]

\* part_003:70-87: as chatwoot.go:150-161 and 82-85
HandleSetChatwootConfig_p3(a) ==
    /\ admin[a].pc = "idle"
    /\ \/ \E code \in {401, 400} :
            /\ admin' = [admin EXCEPT ![a] =
                           [IdleAdmin EXCEPT !.pc = "rejected", !.rev = "part_003", !.status = code]]
            /\ UNCHANGED cwCfg
       \/ \E c \in Configs :
            /\ cwCfg' = Replaced(cwCfg, Config_p3(c))
            /\ admin' = Started(a, [IdleAdmin EXCEPT !.pc = "create", !.rev = "part_003",
                                                     !.cfg = Config_p3(c)])
    /\ UNCHANGED <<configFile, contacts, task, clients, cb>>

\* part_003:90-94: os.Create outside the lock; a failure is answered 500 and
\* the handler returns
HandleSetChatwootConfig_p3_create(a) ==
    /\ admin[a].pc = "create"
    /\ admin[a].rev = "part_003"
    /\ \E ok \in BOOLEAN :
         /\ configFile' = IF ok THEN EmptyFile ELSE configFile
         /\ admin' = [admin EXCEPT ![a] =
                        IF ok THEN [@ EXCEPT !.pc = "encode", !.created = TRUE]
                        ELSE [@ EXCEPT !.pc = "done", !.status = 500]]
    /\ UNCHANGED <<cwCfg, contacts, task, clients, cb>>

\* part_003:95-99: Encode, its error dropped, and the answer 200
HandleSetChatwootConfig_p3_encode(a) ==
    /\ admin[a].pc = "encode"
    /\ admin[a].rev = "part_003"
    /\ \E ok \in BOOLEAN :
         /\ configFile' = IF ok THEN [exists |-> TRUE, json |-> Encode_p3(admin[a].cfg)]
                          ELSE configFile
         /\ admin' = [admin EXCEPT ![a] =
                        [@ EXCEPT !.pc = "done", !.written = ok, !.status = 200]]
    /\ UNCHANGED <<cwCfg, contacts, task, clients, cb>>

\* chatwoot.go:53-55: the process starts again and init() loads the
\* configuration; the requests and goroutines of the old process are gone and
\* no chat client is connected yet
Restart ==
    /\ \E env \in Envs : cwCfg' = loadConfig(configFile, env)
    /\ task' = [t \in Tasks |-> IdleTask]
    /\ cb' = [i \in Callbacks |-> IdleCb]
    /\ admin' = [a \in Admins |-> IdleAdmin]
    /\ clients' = [u \in DOMAIN clients |-> FALSE]
    /\ UNCHANGED <<configFile, contacts>>

NextStore ==
    \/ \E a \in Admins :
          \/ HandleSetChatwootConfig(a)
          \/ saveConfigToDisk_create(a)
          \/ saveConfigToDisk_encode(a)
          \/ HandleSetChatwootConfig_p3(a)
          \/ HandleSetChatwootConfig_p3_create(a)
          \/ HandleSetChatwootConfig_p3_encode(a)
    \/ Restart

InitStore == Init /\ contacts = <<>> /\ clients = [u \in {"u1"} |-> FALSE]

SpecStore == InitStore /\ [][NextStore]_vars

\* C24: the stored configuration is never enabled with an empty base URL or an
\* empty API token, at startup and after any set-config
C24_EnabledImpliesConnection ==
    cwCfg.Enabled => (cwCfg.URL # <<>> /\ cwCfg.Token # <<>>)

\* the step on which the set-config request a returns, chatwoot.json written
ReturnsWritten(a) == InFlight(admin[a]) /\ admin'[a].pc = "done" /\ admin'[a].written

\* memory and chatwoot.json hold c, and a restart loads c whatever the environment
StoredEverywhere(c) ==
    /\ cwCfg' = c
    /\ configFile'.exists
    /\ \A env \in Envs : loadConfig(configFile', env) = c

\* C26 as stated: when a Set(c) returns with the storage written, the memory
\* holds c, the storage holds c, and a restart loads c
C26_SetIsStored ==
    [][\A a \in Admins : ReturnsWritten(a) => StoredEverywhere(admin'[a].cfg)]_vars

\* C26 amended: when a Set(c) that ran together with no other Set returns with
\* the storage written, the memory holds c, the storage holds c, and a restart
\* loads c
C26_SetAloneIsStored ==
    [][\A a \in Admins :
          (ReturnsWritten(a) /\ ~admin'[a].overlap) => StoredEverywhere(admin'[a].cfg)]_vars

\* a Set that ran alone has returned with chatwoot.json written, and a restart
\* would load its configuration
C26_Witness ==
    \E a \in Admins :
        /\ admin[a].pc = "done" /\ admin[a].written /\ ~admin[a].overlap
        /\ admin[a].cfg = CfgNoToken
        /\ cwCfg = CfgNoToken
        /\ \A env \in Envs : loadConfig(configFile, env) = CfgNoToken

Quiescent == \A a \in Admins : ~InFlight(admin[a])

\* C27: when concurrent Sets have all completed and persisted, the memory holds
\* the argument of one of them in full and chatwoot.json holds that same
\* configuration
C27_LastWriterWins ==
    (/\ Quiescent
     /\ \E a \in Admins : admin[a].pc = "done"
     /\ \A a \in Admins : admin[a].pc = "done" => admin[a].written)
        => \E a \in Admins :
              /\ admin[a].pc = "done"
              /\ cwCfg = admin[a].cfg
              /\ configFile.exists
              /\ Decode(DefaultCfg, configFile.json) = cwCfg


\* ------------------------------------------------------------------ snapshots of the configuration

\* an outgoing reply of the agent Ana to the contact with the phone of UserA
SignedReply == [ReplyTo(PhonePlusA) EXCEPT !.SenderName = NameAna]

\* the configurations the administrator sets while a message is under way
Resets == {CfgOn, CfgNoToken, Config_p3(CfgOn)}

\* started without chatwoot.json, from the environment; the chat client is
\* connected
InitConfig ==
    /\ Init
    /\ configFile = NoFile
    /\ contacts = <<>>
    /\ clients = [u \in {"u1"} |-> TRUE]

\* one text of UserA arrives and is relayed; one signed reply comes back; the
\* administrator sets the configuration while they run, one request at a time
NextConfig ==
    \/ \E t \in Tasks :
          \/ ProcessEvent(t) /\ task'[t].msg = MsgText /\ task'[t].Chat = SenderA
                             /\ ~task'[t].old /\ t = 1
          \/ RelayGoroutine(t)
          \/ SendToChatwoot(t)
          \/ getOrCreateContact_search(t)
          \/ getOrCreateContact_create(t)
          \/ sendConversation(t)
    \/ \E i \in Callbacks :
          \/ HandleChatwootWebhookOf(i, [IdleCb EXCEPT !.rev = "chatwoot.go", !.token = Tok1,
                                                       !.jsonOk = TRUE, !.payload = SignedReply])
          \/ WebhookGoroutine(i)
    \/ \E a \in Admins :
          \/ HandleSetChatwootConfig(a) /\ Quiescent /\ admin'[a].cfg \in Resets
          \/ saveConfigToDisk_create(a)
          \/ saveConfigToDisk_encode(a)
          \/ HandleSetChatwootConfig_p3(a) /\ Quiescent /\ admin'[a].cfg \in Resets
          \/ HandleSetChatwootConfig_p3_create(a)
          \/ HandleSetChatwootConfig_p3_encode(a)

SpecConfig == InitConfig /\ [][NextConfig]_vars

\* what loadConfig can give at startup, and what the Sets so far were given
StartupValues == {loadConfig(f, e) : f \in Files, e \in Envs}
SetValues == {admin[a].cfg : a \in {x \in Admins : admin[x].pc \in {"create", "encode", "done"}}}

\* every call of the task carries the token and the inbox of the task's snapshot
CallsFollow(r) ==
    \A k \in 1..Len(r.calls) :
        /\ r.calls[k].token = r.cfg.Token
        /\ r.calls[k].kind \in {"create", "post"} => r.calls[k].inbox_id = Atoi(r.cfg.InboxID)

\* every text sent for the callback is composed with the callback's snapshot
SendsFollow(c) ==
    \A k \in 1..Len(Sends(c)) : Sends(c)[k].text = FinalMessage(c.cfg, c.payload)

\* C25: a snapshot is, in all its fields, the value loaded at startup or the
\* value of one Set, and a relay or a webhook that has taken its snapshot uses
\* it for all its steps, whatever is set meanwhile
C25_SnapshotStable ==
    /\ \A t \in Tasks :
          task[t].cfg \in StartupValues \cup SetValues /\ CallsFollow(task[t])
    /\ \A i \in Callbacks :
          cb[i].cfg \in StartupValues \cup SetValues /\ SendsFollow(cb[i])

\* a relay that has searched and created and has still to post, and a callback
\* whose goroutine has still to run, each with a snapshot that a Set has since
\* replaced in memory
C25_Witness ==
    /\ \E t \in Tasks :
          /\ task[t].pc = "post" /\ Len(task[t].calls) = 2
          /\ task[t].cfg.Token # cwCfg.Token
    /\ \E i \in Callbacks :
          /\ cb[i].pc = "go"
          /\ cb[i].cfg.SignMessages # cwCfg.SignMessages


\* ------------------------------------------------------------------ a Set that is not persisted

\* the step on which the set-config request a returns, chatwoot.json not written
ReturnsUnwritten(a) == InFlight(admin[a]) /\ admin'[a].pc = "done" /\ ~admin'[a].written

\* request a has returned without writing chatwoot.json and no other request
\* has replaced the memory
OnlyUnwritten(a) ==
    /\ admin[a].pc = "done" /\ ~admin[a].written
    /\ \A b \in Admins \ {a} : admin[b].pc \in {"idle", "rejected"}

\* the step on which SendToChatwoot of task t takes its snapshot
TakesSnapshot(t) == task[t].pc = "text" /\ task'[t].pc # "text"

\* C28: when a Set fails to persist, the memory holds the new value when the
\* request returns, the request is answered, and a relay that starts afterwards
\* runs with the new value
C28_UnpersistedStillApplies ==
    [][/\ \A a \in Admins :
            ReturnsUnwritten(a) => (cwCfg' = admin'[a].cfg /\ admin'[a].status \in {200, 500})
       /\ \A a \in Admins, t \in Tasks :
            (OnlyUnwritten(a) /\ TakesSnapshot(t)) => task'[t].cfg = admin[a].cfg]_vars

\* chatwoot.json could not be created for the Set of CfgOn, and a message was
\* relayed afterwards with CfgOn
C28_Witness ==
    \E a \in Admins, t \in Tasks :
        /\ OnlyUnwritten(a) /\ admin[a].cfg = CfgOn /\ ~admin[a].created
        /\ configFile = NoFile
        /\ task[t].pc = "done" /\ Len(task[t].calls) = 3
        /\ task[t].cfg = CfgOn


\* ------------------------------------------------------------------ the relay of media

OggBytes == <<"O", "g", "g">>
MimeOgg == <<"a", "u", "d", "i", "o", "/", "o", "g", "g">>
MimeMpeg == <<"a", "u", "d", "i", "o", "/", "m", "p", "e", "g">>
PdfName == <<"a", ".", "p", "d", "f">>

MsgAudio(mimeType) ==
    [MsgNone EXCEPT !.Media = "audio", !.Download = TRUE, !.Bytes = OggBytes, !.Mime = mimeType]
MsgVideo ==
    [MsgNone EXCEPT !.Media = "video", !.Download = TRUE, !.Bytes = ImageBytes, !.Caption = Caption]
MsgDocument(name) ==
    [MsgNone EXCEPT !.Media = "document", !.Download = TRUE, !.Bytes = ImageBytes,
                    !.Caption = Caption, !.Mime = MimePdf, !.FileName = name]

\* the media messages: each kind downloaded, an image whose download fails
\* and one whose download returns no bytes
MediaMessages ==
    {MsgImage, [MsgImage EXCEPT !.Download = FALSE], [MsgImage EXCEPT !.Bytes = <<>>],
     MsgAudio(MimeOgg), MsgAudio(MimeMpeg), MsgVideo, MsgDocument(PdfName), MsgDocument(<<>>)}

\* the media events, of UserB directly and in a group
MediaEvents ==
    {Event(SenderB, SenderB, NameCarlos, FALSE, m) : m \in MediaMessages}
    \cup {Event(GroupChat, SenderB, NameCarlos, FALSE, MsgImage)}

\* media events arrive at the handler of part_008 and at the one of clients.go
NextMedia ==
    \E t \in Tasks :
        \/ \E e \in MediaEvents : ReceiveOf(t, "part_008", e)
        \/ \E e \in MediaEvents : ReceiveOf(t, "clients.go", e)
        \/ RelayGoroutine(t)
        \/ SendAttachmentToChatwoot(t)
        \/ getOrCreateContact_search(t)
        \/ getOrCreateContact_create(t)
        \/ sendConversation(t)

InitMedia == InitRelay /\ configFile \in {FileOf(CfgOn), FileOf(CfgOff)}

SpecMedia == InitMedia /\ [][NextMedia]_vars

\* the event of the task carries media and the handler obtained its bytes
MediaObtained(r) ==
    r.rev = "part_008" /\ r.msg.Media # "none" /\ r.msg.Download /\ r.msg.Bytes # <<>>

\* the post is the multipart form of the task's media for the resolved contact
IsMediaPost(r, call) ==
    /\ call.form = "multipart"
    /\ call.file = r.msg.Bytes
    /\ call.content = MediaCaption(r.msg)
    /\ call.message_type = "incoming"
    /\ call.inbox_id = r.cfg.InboxID
    /\ r.contactID # 0 /\ call.contact_id = Itoa(r.contactID)

\* C29: an event with media whose bytes were obtained is relayed, after the
\* contact resolution of a text (a search by the normalised phone, a create
\* when the search finds nothing), as exactly one multipart post with the
\* file, the caption as content, message_type "incoming", the inbox and the
\* resolved contact; without a resolved contact nothing is posted
C29_MediaAsOneMultipartPost ==
    \A t \in Tasks :
        LET r == task[t] IN
        (r.pc = "done" /\ MediaObtained(r))
            => /\ Len(CallsOf(t, "post")) = (IF r.contactID # 0 THEN 1 ELSE 0)
               /\ \A k \in 1..Len(r.calls) :
                     r.calls[k].kind = "post" => (k = Len(r.calls) /\ IsMediaPost(r, r.calls[k]))
               /\ Kinds(t) \in {<<>>, <<"search">>, <<"search", "post">>, <<"search", "create">>,
                                <<"search", "create", "post">>}
               /\ r.calls # <<>> => QueryUnescape(r.calls[1].q) = ToCasePhone(r.Sender)

\* a voice note relayed after the contact was created, and a video relayed to
\* the contact the search found
C29_Witness ==
    \E t, u \in Tasks :
        /\ task[t].pc = "done" /\ MediaObtained(task[t]) /\ task[t].msg.Media = "audio"
        /\ Kinds(t) = <<"search", "create", "post">>
        /\ task[t].calls[3].file = OggBytes /\ task[t].calls[3].content = <<>>
        /\ task[u].pc = "done" /\ MediaObtained(task[u]) /\ task[u].msg.Media = "video"
        /\ Kinds(u) = <<"search", "post">>
        /\ task[u].calls[2].file = ImageBytes /\ task[u].calls[2].content = Caption


\* ------------------------------------------------------------------ attachments of the webhook

\* the fetches and sends of the callback, in the order they happened
MediaWork(c) == SelectSeq(c.trace, LAMBDA e : e.kind \in {"fetch", "send"})

\* the kind of send the spec gives to a declared file type
KindFor(fileType) ==
    CASE fileType = "image" -> "image"
      [] fileType = "audio" -> "ptt"
      [] OTHER -> "document"

\* work is, for each attachment of atts in order, one fetch of its URL and
\* then at most one send of the kind of its file type, after a fetch that
\* succeeded
RECURSIVE HandledInOrder(_, _)
HandledInOrder(work, atts) ==
    IF atts = <<>> THEN work = <<>>
    ELSE /\ work # <<>>
         /\ work[1].kind = "fetch" /\ work[1].url = atts[1].DataUrl
         /\ IF Len(work) > 1 /\ work[2].kind = "send"
            THEN /\ work[1].ok
                 /\ work[2].media = KindFor(atts[1].FileType)
                 /\ HandledInOrder(SubSeq(work, 3, Len(work)), Tail(atts))
            ELSE HandledInOrder(Tail(work), Tail(atts))

\* the goroutine of the callback found the client connected and a recipient
\* that is long enough and parses
Delivering(c) ==
    /\ \E k \in 1..Len(c.trace) : c.trace[k].kind = "lookup" /\ c.trace[k].ready
    /\ ~TooShort(CleanPhone(Recipient(c.payload)))
    /\ ParsedOk(c)

\* C30: an accepted callback with attachments, delivered to a connected client
\* and a recipient, has each attachment handled in list order by one fetch and
\* at most one media send of the kind of its file type, and sends no text
C30_AttachmentsInOrder ==
    \A i \in Callbacks :
        LET c == cb[i] IN
        (c.pc = "done" /\ Accepted(c) /\ c.payload.Attachments # <<>> /\ Delivering(c))
            => /\ HandledInOrder(MediaWork(c), c.payload.Attachments)
               /\ \A k \in 1..Len(Sends(c)) : Sends(c)[k].media # "text"

\* ------------------------------------------------------------------ failures

MsgExtended == [MsgNone EXCEPT !.Extended = <<<<TextOi>>>>]
MsgExtendedNoText == [MsgNone EXCEPT !.Extended = <<<<>>>>]
MsgLost == [MsgImage EXCEPT !.Download = FALSE, !.Bytes = <<>>]

\* a text, no text, an extended text with and without its text, and an image
\* whose download succeeds or fails
FaultEvents ==
    {Event(SenderA, SenderA, NameCarlos, FALSE, m) :
        m \in {MsgText, MsgNone, MsgExtended, MsgExtendedNoText, MsgImage, MsgLost}}

\* callbacks without a token, of an unknown and of a known session, with a
\* malformed body, and replies whose phone is missing, short or unparseable
FaultRequests ==
    {[IdleCb EXCEPT !.rev = "chatwoot.go", !.token = tok, !.jsonOk = TRUE,
                    !.payload = [EmptyPayload EXCEPT !.Event = "message_created",
                                                     !.MessageType = "outgoing",
                                                     !.Content = c, !.SenderName = NameAna,
                                                     !.PhoneNumber = ph, !.SourceID = src]] :
        tok \in {<<>>, Tok1, TokX}, c \in {TextReply, <<>>},
        ph \in {<<>>, PhonePlusA, PhoneShort}, src \in {<<>>, TwoAts}}
    \cup {[IdleCb EXCEPT !.rev = "chatwoot.go", !.token = tok] : tok \in {<<>>, Tok1}}

\* the relay under every answer of the case system, and the callbacks of
\* chatwoot.go, while the chat client connects and disconnects
NextFaults ==
    \/ \E t \in Tasks :
          \/ \E e \in FaultEvents : ReceiveOf(t, "clients.go", e) /\ t = 1
          \/ \E e \in FaultEvents : ReceiveOf(t, "part_008", e) /\ t = 1
          \/ RelayGoroutine(t)
          \/ SendToChatwoot(t)
          \/ SendAttachmentToChatwoot(t)
          \/ getOrCreateContact_search(t)
          \/ getOrCreateContact_create(t)
          \/ sendConversation(t)
    \/ \E i \in Callbacks :
          \/ \E c \in FaultRequests : HandleChatwootWebhookOf(i, c)
          \/ WebhookGoroutine(i)
    \/ Connect("u1")
    \/ Disconnect("u1")

InitFaults == Init /\ configFile = FileOf(CfgOn) /\ contacts = <<>>

SpecFaults == InitFaults /\ [][NextFaults]_vars

\* C31: no failure is fatal: whatever the event (no text, an extended text
\* without its text, a media that cannot be downloaded), the callback and
\* the answers of the case system, no task, callback or request ends in a
\* panic of the process.
C31_NeverCrashes ==
    /\ \A t \in Tasks : task[t].pc # "panic"
    /\ \A i \in Callbacks : cb[i].pc # "panic"
    /\ \A a \in Admins : admin[a].pc # "panic"

\* ------------------------------------------------------------------ a call that never returns

\* chatwoot.go:313, 351: the calls go through &http.Client{}, which has no
\* timeout; a case system that never answers leaves client.Do, and the
\* goroutine of that relay, waiting for ever
Hang(t) ==
    /\ task[t].pc \in {"search", "create", "post"}
    /\ task' = [task EXCEPT ![t].pc = "hung"]
    /\ UNCHANGED <<cwCfg, configFile, contacts, clients, cb, admin>>

\* what one relay goroutine does after the handler started it
RelayStep(t) ==
    \/ RelayGoroutine(t)
    \/ SendToChatwoot(t)
    \/ SendAttachmentToChatwoot(t)
    \/ getOrCreateContact_search(t)
    \/ getOrCreateContact_create(t)
    \/ sendConversation(t)

\* what one callback does
CallbackStep(i) ==
    \/ HandleChatwootWebhookOf(i, [IdleCb EXCEPT !.rev = "chatwoot.go", !.token = Tok1,
                                                 !.jsonOk = TRUE, !.payload = SignedReply])
    \/ WebhookGoroutine(i)

\* a text of UserA or an image of UserB arrives, at either revision of the
\* handler
Arrive(t) ==
    \E e \in {Event(SenderA, SenderA, NameCarlos, FALSE, MsgText),
               Event(SenderB, SenderB, NameCarlos, FALSE, MsgImage)} :
        \/ ReceiveOf(t, "clients.go", e)
        \/ ReceiveOf(t, "part_008", e)

\* the calls of the first relay may hang; a second event and a callback arrive
NextHung ==
    \/ \E t \in Tasks :
          \/ Arrive(t)
          \/ RelayStep(t)
          \/ Hang(t) /\ t = 1
    \/ \E i \in Callbacks : CallbackStep(i)

InitHung == InitRelay /\ configFile = FileOf(CfgOn) /\ contacts = <<>>

\* The events and the callback arrive, and the scheduler runs every goroutine
\* that can take a step; nothing makes a hung call return.
SpecHung ==
    /\ InitHung
    /\ [][NextHung]_vars
    /\ \A t \in Tasks : WF_vars(Arrive(t)) /\ WF_vars(RelayStep(t))
    /\ \A i \in Callbacks : WF_vars(CallbackStep(i))

\* C32: the relay never blocks the ingestion: the handler returns without
\* waiting for a call of the case system, so when the relay of the first
\* event hangs for ever, the second event is still taken and its relay ends,
\* and the callback is still processed to its end.
C32_HungRelayStallsOnlyItself ==
    [](task[1].pc = "hung" => <>(task[2].pc = "done" /\ cb[1].pc = "done"))

\* the first relay hangs and the second has posted its message
C32_Witness ==
    /\ task[1].pc = "hung"
    /\ task[2].pc = "done" /\ Len(CallsOf(2, "post")) = 1
    /\ cb[1].pc = "done" /\ Len(Sends(cb[1])) = 1

\* ------------------------------------------------------------------ concurrent relays

\* the search of task t answered 200 without a match
SearchMissed(t) ==
    /\ Len(CallsOf(t, "search")) = 1
    /\ Answered200(SearchCall(t)) /\ SearchCall(t).resp.ids = <<>>

\* C33: the resolution of a contact is not serialised per phone: two relays
\* for the same new phone can both miss in the search and both create (the
\* witness); each relay still issues at most one create, and only after its
\* own search did not match.
C33_OneCreatePerRelay ==
    \A t \in Tasks :
        /\ Len(CallsOf(t, "create")) <= 1
        /\ Len(CallsOf(t, "create")) = 1 =>
              /\ Len(CallsOf(t, "search")) = 1
              /\ ~SearchMatched(SearchCall(t).resp)

\* both relays missed and both created a contact for the same phone
C33_Witness ==
    /\ \A t \in Tasks : SearchMissed(t) /\ Len(CallsOf(t, "create")) = 1
    /\ CreateCall(1).phone_number = CreateCall(2).phone_number
    /\ Len(contacts) = 2 /\ contacts[1].phone = contacts[2].phone
    /\ contacts[1].id # contacts[2].id

\* C34: nothing sequences the relays of two events: a relay that has
\* resolved its contact can post at once, wherever the relay of an event
\* received before it stands, so the post of the second message of a sender
\* can reach the case system before the post of the first (the witness).
C34_PostWaitsForNobody ==
    \A t \in Tasks : task[t].pc = "post" => ENABLED sendConversation(t)

\* m1 was received before m2 from the same sender; m2 is posted and answered
\* 200 while the post of m1 is still to come
C34_Witness ==
    /\ task[1].Sender = task[2].Sender
    /\ task[1].pc = "post" /\ Len(CallsOf(1, "post")) = 0
    /\ task[2].pc = "done" /\ Len(CallsOf(2, "post")) = 1
    /\ Answered200(CallsOf(2, "post")[1])

\* ------------------------------------------------------------------ the automatic creation of the inbox

\* strings.TrimSuffix(s, "/")
TrimSlash(s) == IF Len(s) > 0 /\ s[Len(s)] = "/" THEN SubSeq(s, 1, Len(s) - 1) ELSE s

\* the configurations submitted with the request: no inbox yet, the URL with
\* and without a slash at its end
Submitted ==
    {[CfgOn EXCEPT !.InboxID = <<>>, !.URL = UrlCw \o <<"/">>],
     [CfgOn EXCEPT !.InboxID = <<>>, !.SignMessages = TRUE]}

\* POST /inboxes: a transport error, a status of 400 or more, a body that
\* cannot be decoded (ids is empty), or the id of the new inbox
InboxResponses ==
    {Resp(TRUE, 0, <<>>), Resp(FALSE, 422, <<>>), Resp(FALSE, 200, <<>>),
     Resp(FALSE, 200, <<12>>), Resp(FALSE, 201, <<8>>)}

\* chatwoot.go:181-213: the handler is the first closure that
\* HandleAutoCreateInbox returns; the second one (214-283) is never reached.
\* It answers 401 to a wrong admin token, 400 to a malformed body and to a
\* missing session_token; otherwise it trims the URL of its local copy and
\* returns, which answers 200: no call of the case system, nothing stored.
HandleAutoCreateInbox(a) ==
    /\ admin[a].pc = "idle"
    /\ \/ \E code \in {401, 400} :
            admin' = [admin EXCEPT ![a] =
                        [IdleAdmin EXCEPT !.pc = "rejected", !.rev = "chatwoot.go",
                                          !.op = "auto", !.status = code]]
       \/ \E c \in Submitted :
            admin' = [admin EXCEPT ![a] =
                        [IdleAdmin EXCEPT !.pc = "done", !.rev = "chatwoot.go", !.op = "auto",
                                          !.cfg = [c EXCEPT !.URL = TrimSlash(c.URL)],
                                          !.status = 200]]
    /\ UNCHANGED <<cwCfg, configFile, contacts, task, clients, cb>>

\* part_000:473-484: the answer to the request after the call of the case
\* system, 0 when the inbox was created
InboxFailure(resp) ==
    IF resp.err THEN 500
    ELSE IF resp.status >= 400 THEN resp.status
    ELSE IF resp.ids = <<>> THEN 500
    ELSE 0

\* part_000:421-487 and 312-315: 400 to a malformed body, 401 to a wrong
\* admin token, 400 to an empty session token; then POST /inboxes, whose
\* failure is answered and ends the request; otherwise the configuration gets
\* the id of the inbox and replaces cwCfg under the write lock
HandleAutoCreateInbox_p0(a) ==
    /\ admin[a].pc = "idle"
    /\ \/ \E code \in {400, 401} :
            /\ admin' = [admin EXCEPT ![a] =
                           [IdleAdmin EXCEPT !.pc = "rejected", !.rev = "part_000",
                                             !.op = "auto", !.status = code]]
            /\ UNCHANGED cwCfg
       \/ \E c \in Submitted, resp \in InboxResponses :
            LET url == TrimSlash(c.URL)
                call == [kind |-> "inbox", url |-> url, token |-> c.Token, resp |-> resp]
                r == [IdleAdmin EXCEPT !.rev = "part_000", !.op = "auto",
                                       !.calls = <<call>>]
            IN  IF InboxFailure(resp) # 0
                THEN /\ admin' = [admin EXCEPT ![a] =
                                    [r EXCEPT !.pc = "rejected", !.cfg = c,
                                              !.status = InboxFailure(resp)]]
                     /\ UNCHANGED cwCfg
                ELSE LET cfg == [c EXCEPT !.URL = url, !.InboxID = Itoa(resp.ids[1])]
                     IN  /\ cwCfg' = Replaced(cwCfg, cfg)
                         /\ admin' = Started(a, [r EXCEPT !.pc = "create", !.cfg = cfg])
    /\ UNCHANGED <<configFile, contacts, task, clients, cb>>

\* the administrative requests of chatwoot.go and the automatic creation of
\* part_000, on a disk that works
NextAuto ==
    \E a \in Admins :
        \/ HandleSetChatwootConfig(a)
        \/ HandleAutoCreateInbox(a)
        \/ HandleAutoCreateInbox_p0(a)
        \/ saveConfigToDisk_create(a) /\ admin'[a].created
        \/ saveConfigToDisk_encode(a) /\ admin'[a].written

SpecAuto == InitStore /\ [][NextAuto]_vars

\* the inbox of an automatic creation that was answered with success
InboxOf(r) == IF r.calls = <<>> THEN <<>> ELSE Itoa(r.calls[1].resp.ids[1])

\* C35: the configuration changes only in a step of an administrative
\* request that is not rejected; a request that is rejected, or whose call of
\* the case system fails, leaves the memory and the file as they were; and
\* when an automatic creation that ran alone is answered with success, the
\* memory and the file hold the submitted configuration with the id of the
\* new inbox.
C35_OnlySuccessMutates ==
    [][/\ cwCfg' # cwCfg =>
            \E a \in Admins : admin[a].pc = "idle" /\ admin'[a].pc = "create"
       /\ configFile' # configFile =>
            \E a \in Admins : InFlight(admin[a]) /\ admin'[a] # admin[a]
       /\ \A a \in Admins :
            /\ admin'[a].pc = "rejected" /\ admin[a].pc # "rejected" =>
                  UNCHANGED <<cwCfg, configFile>>
            /\ (/\ admin'[a].pc = "done" /\ admin[a].pc # "done"
                /\ admin'[a].op = "auto" /\ admin'[a].status = 200
                /\ ~admin'[a].overlap) =>
                  /\ admin'[a].calls # <<>>
                  /\ cwCfg' = [admin'[a].cfg EXCEPT !.InboxID = InboxOf(admin'[a])]
                  /\ configFile' = FileOf(cwCfg')
      ]_vars

\* ------------------------------------------------------------------ delivery and the configuration

\* the two fields of the configuration that the webhook reads
SignOnly(cfg) ==
    [DefaultCfg EXCEPT !.SignMessages = cfg.SignMessages,
                       !.SignatureDelimiter = cfg.SignatureDelimiter]

\* an accepted outgoing text for a registered session, with a plausible
\* phone, whose goroutine found the client connected
Deliverable(c) ==
    /\ c.rev \in {"chatwoot.go", "part_000"} /\ c.pc = "done"
    /\ Accepted(c) /\ FoundConnected(c)
    /\ PlausiblePhone(c.payload.PhoneNumber)
    /\ c.payload.Content # <<>> /\ c.payload.Attachments = <<>>

\* C36: the delivery of the webhook does not depend on the integration being
\* enabled: whatever the configuration holds, the goroutine of an accepted
\* callback looks its client up, and an accepted outgoing text for a
\* registered session, a connected client and a plausible phone is sent; the
\* text sent is the one that a configuration with the same sign_messages and
\* signature_delimiter, and nothing else, gives.
C36_DeliveryIgnoresEnabled ==
    \A i \in Callbacks :
        LET c == cb[i] IN
        /\ (c.rev \in {"chatwoot.go", "part_000"} /\ c.pc = "done" /\ Accepted(c)) =>
              Len(EventsOfKind(c, "lookup")) = 1
        /\ Deliverable(c) =>
              /\ Len(Sends(c)) = 1
              /\ Sends(c)[1].media = "text"
              /\ Sends(c)[1].text = IF c.rev = "part_000"
                                    THEN FinalMessage_p0(SignOnly(c.cfg), c.payload)
                                    ELSE FinalMessage(SignOnly(c.cfg), c.payload)

\* a text delivered while the integration is disabled, and one delivered while
\* the token of the case system is empty
C36_Witness ==
    \E i \in Callbacks :
        /\ Deliverable(cb[i])
        /\ ~cb[i].cfg.Enabled \/ cb[i].cfg.Token = <<>>
        /\ Len(Sends(cb[i])) = 1 /\ Sends(cb[i])[1].ok

\* ------------------------------------------------------------------ the id of the resolver

\* the search of task t answered 200 with matches, the first of them id
SearchGave(t, id) ==
    /\ Len(CallsOf(t, "search")) = 1
    /\ Answered200(SearchCall(t)) /\ SearchCall(t).resp.ids # <<>>
    /\ SearchCall(t).resp.ids[1] = id

\* the create of task t answered exactly 200 with the id
CreateGave(t, id) ==
    /\ Len(CallsOf(t, "create")) = 1
    /\ Answered200(CreateCall(t)) /\ CreateCall(t).resp.ids # <<>>
    /\ CreateCall(t).resp.ids[1] = id

\* C37: the resolver gives a non-zero id only when the search answered 200
\* with matches or the create answered exactly 200; after a create with any
\* other answer (a transport error, 201, 422) or without an id the id is 0;
\* and a relay whose id is 0 posts nothing.
C37_IdOnlyFrom200 ==
    \A t \in Tasks :
        LET r == task[t] IN
        /\ r.contactID # 0 => SearchGave(t, r.contactID) \/ CreateGave(t, r.contactID)
        /\ (Len(CallsOf(t, "create")) = 1 /\ ~CreateGaveId(CreateCall(t))) =>
              r.contactID = 0 /\ r.pc = "done"
        /\ r.contactID = 0 => Len(CallsOf(t, "post")) = 0 /\ r.pc # "post"

\* the case system answered the create with 201 and an id: the relay is over
\* without a post
C37_Witness ==
    \E t \in Tasks :
        /\ Len(CallsOf(t, "create")) = 1
        /\ CreateCall(t).resp.status = 201 /\ CreateCall(t).resp.ids # <<>>
        /\ task[t].contactID = 0 /\ task[t].pc = "done"
        /\ Len(CallsOf(t, "post")) = 0

\* ------------------------------------------------------------------ termination

\* events arrive and every call of the case system returns, with an answer or
\* with a transport error
NextReturns == \E t \in Tasks : Arrive(t) \/ RelayStep(t)

\* the scheduler runs every relay goroutine that can take a step
SpecReturns ==
    /\ InitHung
    /\ [][NextReturns]_vars
    /\ \A t \in Tasks : WF_vars(RelayStep(t))

\* the calls of a relay, in the order in which it may issue them
CallOrders ==
    {<<>>, <<"search">>, <<"search", "create">>, <<"search", "post">>,
     <<"search", "create", "post">>}

\* C38: when every call of the case system returns, every relay task ends,
\* and it has made at most one search, at most one create and at most one
\* post, in that order.
C38_RelayTerminates ==
    /\ [](\A t \in Tasks : Kinds(t) \in CallOrders)
    /\ \A t \in Tasks : (task[t].pc = "go") ~> (task[t].pc = "done")

\* both relays are over, one after a search, a create and a post, the other
\* after a search that matched and a post
C38_Witness ==
    /\ \A t \in Tasks : task[t].pc = "done"
    /\ Kinds(1) = <<"search", "create", "post">>
    /\ Kinds(2) = <<"search", "post">>

\* ------------------------------------------------------------------ events that are dropped

\* an event without a text and without downloaded media
Empty(r) == r.pc # "idle" /\ TextOf(r.msg) = <<>> /\ MediaData(r.rev, r.msg) = <<>>

\* C39: an event more than two minutes old is dropped at the entry of the
\* handler: no relay goroutine, no call of the case system and no forwarding
\* to the webhook; and an event with neither a text nor downloaded media
\* causes no call of the case system.
C39_OldAndEmptyDropped ==
    \A t \in Tasks :
        /\ task[t].old =>
              /\ task[t].pc = "done" /\ task[t].args = NoArgs
              /\ task[t].calls = <<>> /\ ~task[t].webhook
        /\ Empty(task[t]) =>
              /\ task[t].calls = <<>>
              /\ task[t].pc \in {"go", "done"}

\* an old text was dropped, and an image whose bytes were not downloaded went
\* to the webhook forwarding without a call of the case system
C39_Witness ==
    \E t, u \in Tasks :
        /\ task[t].old /\ task[t].msg = MsgText /\ task[t].pc = "done"
        /\ ~task[u].old /\ Empty(task[u]) /\ task[u].msg = MsgImage
        /\ task[u].pc = "done" /\ task[u].webhook

====
